---- MODULE Spec2Model ----
(***************************************************************************)
(* Receiver-side audio streaming core of pc-receiver: the reorder (jitter) *)
(* buffer, the adaptive buffer that wraps it, and the FEC decoder.         *)
(*                                                                         *)
(* Conventions.                                                            *)
(*  - A std::vector<float> of PCM samples is the record                    *)
(*    [size |-> its length, pcm |-> an identifier of its contents].        *)
(*  - std::map<uint32_t, ...> is a function whose DOMAIN is the key set.   *)
(*  - steady_clock time points are kept as the time elapsed since they     *)
(*    were taken, in ms, saturated at the largest interval the code        *)
(*    compares them with.                                                  *)
(*  - Doubles that only scale integers are kept in hundredths.             *)
(*  - The jitter accumulators of JitterBuffer (jitter_sum_ms_,             *)
(*    jitter_count_, last_packet_timestamp_, max_sequence_gap_,            *)
(*    last_sequence_added_) and the utilization average of the adaptive    *)
(*    buffer are written but never read by any decision; they are left     *)
(*    out of the state.                                                    *)
(*  - Sequence ids in the model stay far below 2^32, so uint32_t           *)
(*    arithmetic on them never wraps.                                      *)
(***************************************************************************)
EXTENDS Integers, Sequences, FiniteSets, TLC

(***************************************************************************)
(* Bounds of the model.                                                    *)
(***************************************************************************)
\* sequence ids offered to the buffers are 1..MaxSid
MaxSid == 3
\* number of API calls made on the adaptive buffer in one behaviour
MaxCalls == 4
\* number of calls made on a plain JitterBuffer in one behaviour
MaxJBCalls == 5
\* number of calls the two threads begin on the shared adaptive buffer
MaxConcCalls == 4
\* number of FECDecoder calls explored
MaxFecCalls == 4
\* the latest time the decoder's clock reaches, in ms
MaxNowMs == 1200
\* number of FECEncoder calls explored
MaxEncCalls == 4
\* number of recover_packet calls made at the receiving end of the link
MaxRecoveries == 1
\* calls on the NetworkMonitor in one behaviour
MaxMonCalls == 5
\* threads start() may create, calls of start() and stop() begun, packets offered
MaxWorkers == 2
MaxCtlCalls == 3
MaxPackets == 2

(***************************************************************************)
(* Program constants.                                                      *)
(***************************************************************************)
\* JitterBuffer::MIN_CAPACITY / MAX_CAPACITY
MIN_CAPACITY == 1
MAX_CAPACITY == 20
\* frame geometry the buffers are constructed with (2.5 ms at 48 kHz, stereo)
FrameSize == 120
Channels == 2
\* AdaptiveJitterBuffer constants
MIN_ADAPTATION_FACTOR == 50
MAX_ADAPTATION_FACTOR == 200
MAX_CAPACITY_HISTORY == 20
MIN_ADAPTATION_INTERVAL == 100

QUALITIES == {"EXCELLENT", "GOOD", "FAIR", "POOR"}

VARIABLES
    jitter_buffer_,     \* AdaptiveJitterBuffer::jitter_buffer_ (the JitterBuffer object)
    config_,            \* AdaptiveJitterBuffer::config_
    stats_,             \* AdaptiveJitterBuffer::stats_
    capacity_history_,  \* AdaptiveJitterBuffer::capacity_history_
    network_monitor_,   \* [attached, metrics]: the shared NetworkMonitor and what it reports
    ret,                \* the last call and what it returned
    released,           \* sequence ids a plain JitterBuffer has returned from get_next_packet
    calls,              \* number of API calls made
    adaptive_mutex_,    \* AdaptiveJitterBuffer::adaptive_mutex_: the thread holding it
    buffer_id,          \* identity of the JitterBuffer object jitter_buffer_ owns
    changer,            \* the thread calling set_capacity: its position and locals
    worker,             \* the thread calling add_packet / get_next_packet
    view,               \* what the worker's last call on a JitterBuffer object met
    fec_decoder_,       \* the FECDecoder object
    now_ms,             \* std::chrono::steady_clock, in ms
    current_max,        \* history: the highest sequence_id of the FEC packets processed
    fec_encoder_,       \* the FECEncoder object
    link,               \* the FEC packets in flight from the encoder to the decoder
    sent,               \* history: payload and fate of each encode_packet call, by sequence_id
    audio_packet,       \* an AudioPacket on the sending side
    wire,               \* the bytes AudioPacket::serialize made of it, or NoWire
    parsed,             \* what AudioPacket::deserialize made of the bytes, or NotParsed
    monitor_,           \* the NetworkMonitor object
    enc_call,           \* the thread inside FECEncoder::encode_packet: its position and locals
    pipeline_,          \* the AudioPipeline object
    threads_            \* the threads around the AudioPipeline: their positions and locals

\* the variables of the two-thread model of the adaptive buffer
concVars == <<adaptive_mutex_, buffer_id, changer, worker, view>>
\* the variables of the FEC decoder
fecVars == <<fec_decoder_, now_ms, current_max>>

\* the variables of the sending side and of the link
pktVars == <<audio_packet, wire, parsed>>
\* the variables of the threads that share an encoder or a pipeline
threadVars == <<enc_call, pipeline_, threads_>>
netVars == <<fec_encoder_, link, sent, pktVars, monitor_, threadVars>>

vars == <<jitter_buffer_, config_, stats_, capacity_history_, network_monitor_,
          ret, released, calls, concVars, fecVars, netVars>>

(***************************************************************************)
(* Small helpers.                                                          *)
(***************************************************************************)
Max(a, b) == IF a >= b THEN a ELSE b
Min(a, b) == IF a <= b THEN a ELSE b
\* std::clamp(v, lo, hi)
Clamp(v, lo, hi) == IF v < lo THEN lo ELSE IF v > hi THEN hi ELSE v
\* static_cast<int>(double): truncation toward zero of n/d, d > 0
TruncDiv(n, d) == IF n >= 0 THEN n \div d ELSE -((-n) \div d)
\* std::map::begin()->first
MinKey(m) == CHOOSE k \in DOMAIN m : \A j \in DOMAIN m : k <= j
MapErase(m, k) == [j \in (DOMAIN m) \ {k} |-> m[j]]
MapPut(m, k, v) == [j \in (DOMAIN m) \cup {k} |-> IF j = k THEN v ELSE m[j]]
EmptyMap == [j \in {} |-> 0]

RECURSIVE SeqSum(_)
SeqSum(s) == IF s = <<>> THEN 0 ELSE Head(s) + SeqSum(Tail(s))
RECURSIVE SeqSumSq(_)
SeqSumSq(s) == IF s = <<>> THEN 0 ELSE Head(s) * Head(s) + SeqSumSq(Tail(s))
LastN(s, n) == SubSeq(s, Len(s) - n + 1, Len(s))

NullPacket == [sequence_id |-> 0, timestamp |-> 0, audio_data |-> [size |-> 0, pcm |-> "none"]]

(***************************************************************************)
(* JitterBuffer (src/pc-receiver/src/audio/jitter_buffer.cpp).             *)
(* A JitterBuffer object is the record                                     *)
(*   [capacity, initialized, buffer, next_expected_sequence,               *)
(*    packets_added, packets_retrieved, packets_dropped, duplicates_dropped]*)
(***************************************************************************)
\* JitterBuffer::JitterBuffer(capacity, FrameSize, Channels)
JB_new(capacity) ==
    [capacity |-> capacity,
     initialized |-> (capacity >= MIN_CAPACITY /\ capacity <= MAX_CAPACITY),
     buffer |-> EmptyMap,
     next_expected_sequence |-> 0,
     packets_added |-> 0,
     packets_retrieved |-> 0,
     packets_dropped |-> 0,
     duplicates_dropped |-> 0]

\* JitterBuffer::validate_packet
validate_packet(audio_data) == audio_data.size = FrameSize * Channels

\* std::map::rbegin()->first
MaxKey(m) == CHOOSE k \in DOMAIN m : \A j \in DOMAIN m : k >= j

\* drop_oldest_packet erasing the largest key instead of the smallest
drop_oldest_packet_newest(jb) ==
    IF DOMAIN jb.buffer = {} THEN jb
    ELSE [jb EXCEPT !.buffer = MapErase(jb.buffer, MaxKey(jb.buffer)),
                    !.packets_dropped = jb.packets_dropped + 1]

\* JitterBuffer::drop_oldest_packet
drop_oldest_packet(jb) ==
    IF DOMAIN jb.buffer = {} THEN jb
    ELSE [jb EXCEPT !.buffer = MapErase(jb.buffer, MinKey(jb.buffer)),
                    !.packets_dropped = jb.packets_dropped + 1]

\* add_packet with the capacity check made before the duplicate check
JB_add_packet_evict_first(jb, sequence_id, timestamp, audio_data) ==
    IF ~jb.initialized THEN [jb |-> jb, result |-> FALSE]
    ELSE IF ~validate_packet(audio_data) THEN [jb |-> jb, result |-> FALSE]
    ELSE LET jb1 == IF Cardinality(DOMAIN jb.buffer) >= jb.capacity
                    THEN drop_oldest_packet(jb) ELSE jb
             packet == [sequence_id |-> sequence_id, timestamp |-> timestamp,
                        audio_data |-> audio_data]
         IN IF sequence_id \in DOMAIN jb1.buffer
            THEN [jb |-> [jb1 EXCEPT !.duplicates_dropped = jb1.duplicates_dropped + 1],
                  result |-> FALSE]
            ELSE [jb |-> [jb1 EXCEPT !.buffer = MapPut(jb1.buffer, sequence_id, packet),
                                     !.packets_added = jb1.packets_added + 1],
                  result |-> TRUE]

\* JitterBuffer::add_packet: the object afterwards and the value returned
JB_add_packet(jb, sequence_id, timestamp, audio_data) ==
    IF ~jb.initialized THEN [jb |-> jb, result |-> FALSE]
    ELSE IF ~validate_packet(audio_data) THEN [jb |-> jb, result |-> FALSE]
    ELSE IF sequence_id \in DOMAIN jb.buffer
    THEN [jb |-> [jb EXCEPT !.duplicates_dropped = jb.duplicates_dropped + 1],
          result |-> FALSE]
    ELSE LET jb1 == IF Cardinality(DOMAIN jb.buffer) >= jb.capacity
                    THEN drop_oldest_packet(jb) ELSE jb
             packet == [sequence_id |-> sequence_id, timestamp |-> timestamp,
                        audio_data |-> audio_data]
         IN [jb |-> [jb1 EXCEPT !.buffer = MapPut(jb1.buffer, sequence_id, packet),
                                !.packets_added = jb1.packets_added + 1],
             result |-> TRUE]

\* get_next_packet taking the last entry of the map instead of the first
JB_get_next_packet_last(jb) ==
    IF ~jb.initialized THEN [jb |-> jb, has |-> FALSE, packet |-> NullPacket]
    ELSE IF DOMAIN jb.buffer = {} THEN [jb |-> jb, has |-> FALSE, packet |-> NullPacket]
    ELSE LET sequence_id == MaxKey(jb.buffer)
         IN [jb |-> [jb EXCEPT !.buffer = MapErase(jb.buffer, sequence_id),
                               !.next_expected_sequence = sequence_id + 1,
                               !.packets_retrieved = jb.packets_retrieved + 1],
             has |-> TRUE,
             packet |-> jb.buffer[sequence_id]]

\* JitterBuffer::get_next_packet: the object afterwards and the packet returned
JB_get_next_packet(jb) ==
    IF ~jb.initialized THEN [jb |-> jb, has |-> FALSE, packet |-> NullPacket]
    ELSE IF DOMAIN jb.buffer = {} THEN [jb |-> jb, has |-> FALSE, packet |-> NullPacket]
    ELSE LET sequence_id == MinKey(jb.buffer)
         IN [jb |-> [jb EXCEPT !.buffer = MapErase(jb.buffer, sequence_id),
                               !.next_expected_sequence = sequence_id + 1,
                               !.packets_retrieved = jb.packets_retrieved + 1],
             has |-> TRUE,
             packet |-> jb.buffer[sequence_id]]

\* JitterBuffer::clear
JB_clear(jb) ==
    [jb EXCEPT !.buffer = EmptyMap,
               !.next_expected_sequence = 0,
               !.packets_added = 0,
               !.packets_retrieved = 0,
               !.packets_dropped = 0,
               !.duplicates_dropped = 0]

JB_is_empty(jb) == DOMAIN jb.buffer = {}
JB_is_full(jb) == Cardinality(DOMAIN jb.buffer) >= jb.capacity
JB_get_size(jb) == Cardinality(DOMAIN jb.buffer)

(***************************************************************************)
(* NetworkMonitor, as far as the adaptive buffer reads it                  *)
(* (src/pc-receiver/src/network/network_monitor.cpp).  The monitor's       *)
(* metrics are the record [packet_loss_rate, avg_rtt_us, jitter_us,        *)
(* quality] that get_metrics() returns.                                    *)
(***************************************************************************)
EXCELLENT_LOSS_THRESHOLD == 1
GOOD_LOSS_THRESHOLD == 3
FAIR_LOSS_THRESHOLD == 10
EXCELLENT_RTT_THRESHOLD_US == 5000
GOOD_RTT_THRESHOLD_US == 20000
FAIR_RTT_THRESHOLD_US == 50000
EXCELLENT_JITTER_THRESHOLD_US == 1000
GOOD_JITTER_THRESHOLD_US == 5000
FAIR_JITTER_THRESHOLD_US == 20000

QualityRank(q) ==
    CASE q = "EXCELLENT" -> 0 [] q = "GOOD" -> 1 [] q = "FAIR" -> 2 [] q = "POOR" -> 3
WorseOf(a, b) == IF QualityRank(a) >= QualityRank(b) THEN a ELSE b
ClassOf(v, excellent, good, fair) ==
    IF v > fair THEN "POOR" ELSE IF v > good THEN "FAIR"
    ELSE IF v > excellent THEN "GOOD" ELSE "EXCELLENT"

\* classify_network_quality without its jitter part
classify_ignoring_jitter(packet_loss_rate, avg_rtt_us, jitter_us) ==
    WorseOf(ClassOf(packet_loss_rate, EXCELLENT_LOSS_THRESHOLD,
                    GOOD_LOSS_THRESHOLD, FAIR_LOSS_THRESHOLD),
            ClassOf(avg_rtt_us, EXCELLENT_RTT_THRESHOLD_US,
                    GOOD_RTT_THRESHOLD_US, FAIR_RTT_THRESHOLD_US))

\* NetworkMonitor::classify_network_quality
classify_network_quality(packet_loss_rate, avg_rtt_us, jitter_us) ==
    LET loss_quality == ClassOf(packet_loss_rate, EXCELLENT_LOSS_THRESHOLD,
                                GOOD_LOSS_THRESHOLD, FAIR_LOSS_THRESHOLD)
        rtt_quality == ClassOf(avg_rtt_us, EXCELLENT_RTT_THRESHOLD_US,
                               GOOD_RTT_THRESHOLD_US, FAIR_RTT_THRESHOLD_US)
        jitter_quality == ClassOf(jitter_us, EXCELLENT_JITTER_THRESHOLD_US,
                                  GOOD_JITTER_THRESHOLD_US, FAIR_JITTER_THRESHOLD_US)
    IN WorseOf(WorseOf(loss_quality, rtt_quality), jitter_quality)

\* what get_metrics() returns for the given loss, mean RTT and jitter
Metrics(packet_loss_rate, avg_rtt_us, jitter_us) ==
    [packet_loss_rate |-> packet_loss_rate,
     avg_rtt_us |-> avg_rtt_us,
     jitter_us |-> jitter_us,
     quality |-> classify_network_quality(packet_loss_rate, avg_rtt_us, jitter_us)]

\* NetworkMonitor::get_recommended_jitter_buffer_size, from the switch on: the
\* size for the quality and the jitter held by metrics
get_recommended_jitter_buffer_size(metrics, min_size, max_size) ==
    LET base_size ==
            CASE metrics.quality = "EXCELLENT" -> min_size
              [] metrics.quality = "GOOD" -> min_size + 1
              [] metrics.quality = "FAIR" -> min_size + 3
              [] metrics.quality = "POOR" -> max_size
        adjusted ==
            IF metrics.jitter_us > FAIR_JITTER_THRESHOLD_US THEN base_size + 2
            ELSE IF metrics.jitter_us > GOOD_JITTER_THRESHOLD_US THEN base_size + 1
            ELSE base_size
    IN Clamp(adjusted, min_size, max_size)

(***************************************************************************)
(* The NetworkMonitor object: the record [window_size_, update_interval_,  *)
(* last_update_, rtt_samples_, current_metrics_].  sent_packets_ and       *)
(* received_packets_ are written and pruned but never read, and are left   *)
(* out.  Times are in ms.  A uint64_t holding 2^64 - n is kept as -n.      *)
(* packet_loss_rate is kept in whole percent, rounded up, which preserves  *)
(* every comparison with the whole-number thresholds it is compared with;  *)
(* the rate computed from a wrapped packets_lost (about 1.8 * 10^21 / sent *)
(* percent) is kept as LOSS_RATE_WRAPPED.  throughput_mbps is kept in      *)
(* kbit/s.                                                                 *)
(***************************************************************************)
LOSS_RATE_WRAPPED == 2147483647

\* a default-constructed NetworkMetrics with last_update set
NoMetrics(now) ==
    [packets_sent |-> 0, packets_received |-> 0, packets_lost |-> 0,
     packet_loss_rate |-> 0,
     min_rtt_us |-> 0, max_rtt_us |-> 0, avg_rtt_us |-> 0, jitter_us |-> 0,
     bytes_sent |-> 0, bytes_received |-> 0, throughput_mbps |-> 0,
     quality |-> "EXCELLENT", last_update |-> now]

\* NetworkMonitor::NetworkMonitor
NetworkMonitor_new(window_size, update_interval, now) ==
    [window_size_ |-> window_size, update_interval_ |-> update_interval,
     last_update_ |-> now, rtt_samples_ |-> <<>>, current_metrics_ |-> NoMetrics(now)]

\* NetworkMonitor::calculate_packet_loss
calculate_packet_loss(M) ==
    LET c == M.current_metrics_
        lost_packets == c.packets_sent - c.packets_received
    IN IF c.packets_sent = 0
       THEN [M EXCEPT !.current_metrics_.packet_loss_rate = 0,
                      !.current_metrics_.packets_lost = 0]
       ELSE [M EXCEPT !.current_metrics_.packets_lost = lost_packets,
                      !.current_metrics_.packet_loss_rate =
                          IF lost_packets < 0 THEN LOSS_RATE_WRAPPED
                          ELSE (lost_packets * 100 + c.packets_sent - 1) \div c.packets_sent]

\* the largest j in lo..hi with j * j <= v, given lo * lo <= v
RECURSIVE SqrtBetween(_, _, _)
SqrtBetween(lo, hi, v) ==
    IF lo = hi THEN lo
    ELSE LET mid == (lo + hi + 1) \div 2
         IN IF mid * mid <= v THEN SqrtBetween(mid, hi, v) ELSE SqrtBetween(lo, mid - 1, v)

\* static_cast<uint64_t>(std::sqrt(v)) for v below 2^31
FloorSqrt(v) == SqrtBetween(0, 46340, v)

RECURSIVE SeqMin(_)
SeqMin(s) == IF Len(s) = 1 THEN s[1] ELSE Min(Head(s), SeqMin(Tail(s)))
RECURSIVE SeqMax(_)
SeqMax(s) == IF Len(s) = 1 THEN s[1] ELSE Max(Head(s), SeqMax(Tail(s)))

\* NetworkMonitor::calculate_jitter
calculate_jitter(M) ==
    LET n == Len(M.rtt_samples_)
        avg == SeqSum(M.rtt_samples_) \div n
        variance == SeqSumSq([i \in 1..n |-> M.rtt_samples_[i] - avg]) \div n
    IN IF n < 2 THEN [M EXCEPT !.current_metrics_.jitter_us = 0]
       ELSE [M EXCEPT !.current_metrics_.min_rtt_us = SeqMin(M.rtt_samples_),
                      !.current_metrics_.max_rtt_us = SeqMax(M.rtt_samples_),
                      !.current_metrics_.avg_rtt_us = avg,
                      !.current_metrics_.jitter_us = FloorSqrt(variance)]

\* NetworkMonitor::calculate_throughput
calculate_throughput(M, now) ==
    LET duration == now - M.current_metrics_.last_update
    IN IF duration > 0
       THEN [M EXCEPT !.current_metrics_.throughput_mbps =
                          (M.current_metrics_.bytes_sent * 8) \div duration]
       ELSE M

\* NetworkMonitor::classify_network_quality on the members of the monitor
NetworkMonitor_classify(M) ==
    [M EXCEPT !.current_metrics_.quality =
        classify_network_quality(M.current_metrics_.packet_loss_rate,
                                 M.current_metrics_.avg_rtt_us,
                                 M.current_metrics_.jitter_us)]

\* NetworkMonitor::update_metrics
update_metrics(M, now) ==
    IF now - M.last_update_ >= M.update_interval_
    THEN LET M1 == NetworkMonitor_classify(
                       calculate_throughput(calculate_jitter(calculate_packet_loss(M)), now))
         IN [M1 EXCEPT !.current_metrics_.last_update = now, !.last_update_ = now]
    ELSE M

\* NetworkMonitor::record_packet_sent
record_packet_sent(M, size_bytes, now) ==
    update_metrics([M EXCEPT !.current_metrics_.packets_sent = @ + 1,
                             !.current_metrics_.bytes_sent = @ + size_bytes], now)

\* NetworkMonitor::record_packet_received
record_packet_received(M, size_bytes, now) ==
    update_metrics([M EXCEPT !.current_metrics_.packets_received = @ + 1,
                             !.current_metrics_.bytes_received = @ + size_bytes], now)

\* n record_packet_sent calls in a row at one time, for update_interval_ > 0:
\* after the first call now - last_update_ is below update_interval_ (it was
\* before, or last_update_ has just become now), so the other n - 1 calls only
\* count
record_packets_sent(M, n, size_bytes, now) ==
    IF n = 0 THEN M
    ELSE LET M1 == record_packet_sent(M, size_bytes, now)
         IN [M1 EXCEPT !.current_metrics_.packets_sent = @ + (n - 1),
                       !.current_metrics_.bytes_sent = @ + (n - 1) * size_bytes]

\* n record_packet_received calls in a row at one time, for update_interval_ > 0
record_packets_received(M, n, size_bytes, now) ==
    IF n = 0 THEN M
    ELSE LET M1 == record_packet_received(M, size_bytes, now)
         IN [M1 EXCEPT !.current_metrics_.packets_received = @ + (n - 1),
                       !.current_metrics_.bytes_received = @ + (n - 1) * size_bytes]

\* NetworkMonitor::record_rtt
record_rtt(M, rtt_us, now) ==
    LET pushed == Append(M.rtt_samples_, rtt_us)
    IN update_metrics([M EXCEPT !.rtt_samples_ =
                           IF Len(pushed) > M.window_size_ THEN Tail(pushed) ELSE pushed],
                      now)

\* NetworkMonitor::get_metrics: the monitor afterwards (the call rewrites
\* current_metrics_) and the metrics returned
get_metrics(M) ==
    LET M1 == NetworkMonitor_classify(calculate_jitter(calculate_packet_loss(M)))
    IN [monitor |-> M1, metrics |-> M1.current_metrics_]

\* NetworkMonitor::get_network_quality
get_network_quality(M) == M.current_metrics_.quality

\* NetworkMonitor::get_recommended_jitter_buffer_size on the monitor: the
\* quality is read before get_metrics() recomputes it
NetworkMonitor_get_recommended_jitter_buffer_size(M, min_size, max_size) ==
    LET quality == get_network_quality(M)
        g == get_metrics(M)
    IN [monitor |-> g.monitor,
        result |-> get_recommended_jitter_buffer_size(
                       [g.metrics EXCEPT !.quality = quality], min_size, max_size)]

\* NetworkMonitor::reset
NetworkMonitor_reset(M, now) ==
    [M EXCEPT !.rtt_samples_ = <<>>,
              !.current_metrics_ = NoMetrics(now),
              !.last_update_ = now]

(***************************************************************************)
(* AdaptiveJitterBuffer                                                    *)
(* (src/pc-receiver/src/audio/adaptive_jitter_buffer.cpp).                 *)
(* The helpers work on the record A = [jb, stats, hist] of the members     *)
(* jitter_buffer_, stats_ and capacity_history_.                           *)
(***************************************************************************)
\* AdaptiveJitterConfig with its default member initialisers
AdaptiveJitterConfig(min_capacity, max_capacity, default_capacity, stability_window) ==
    [min_capacity |-> min_capacity,
     max_capacity |-> max_capacity,
     default_capacity |-> default_capacity,
     adaptation_rate |-> 10,
     update_interval |-> 500,
     packet_loss_threshold |-> 5,
     jitter_threshold_us |-> 10000,
     rtt_threshold_us |-> 50000,
     stability_window |-> stability_window,
     stability_threshold |-> 20]

\* the validation of the constructor and of update_config
ValidateConfig(c) ==
    LET min_capacity == Max(1, c.min_capacity)
        max_capacity == Max(min_capacity, c.max_capacity)
    IN [c EXCEPT !.min_capacity = min_capacity,
                 !.max_capacity = max_capacity,
                 !.default_capacity = Clamp(c.default_capacity, min_capacity, max_capacity),
                 !.adaptation_rate = Clamp(c.adaptation_rate, 0, 100)]

\* AdaptiveStats as the constructor and reset() leave it
InitialStats(cfg) ==
    [current_capacity |-> cfg.default_capacity,
     target_capacity |-> cfg.default_capacity,
     adaptation_factor |-> 100,
     current_network_quality |-> "EXCELLENT",
     current_packet_loss_rate |-> 0,
     current_rtt_us |-> 0,
     current_jitter_us |-> 0,
     adaptations_count |-> 0,
     capacity_increases |-> 0,
     capacity_decreases |-> 0,
     underruns |-> 0,
     overruns |-> 0,
     since_last_adaptation |-> 0,
     since_last_update |-> 0]

\* AdaptiveJitterBuffer::is_adaptation_stable
is_adaptation_stable(hist, cfg) ==
    IF Len(hist) < cfg.stability_window THEN TRUE
    ELSE LET recent == LastN(hist, cfg.stability_window)
             n == cfg.stability_window
             sum == SeqSum(recent)
             sumsq == SeqSumSq(recent)
         IN \* sqrt(variance) / mean <= stability_threshold, with mean > 0
            IF sum > 0
            THEN (n * sumsq - sum * sum) * 10000
                     <= cfg.stability_threshold * cfg.stability_threshold * sum * sum
            ELSE TRUE

\* AdaptiveJitterBuffer::calculate_adaptation_factor (in hundredths)
calculate_adaptation_factor(stats, hist, cfg) ==
    LET base == CASE stats.current_network_quality = "EXCELLENT" -> 120
                  [] stats.current_network_quality = "GOOD" -> 100
                  [] stats.current_network_quality = "FAIR" -> 80
                  [] stats.current_network_quality = "POOR" -> 60
        factor == IF is_adaptation_stable(hist, cfg) THEN base ELSE base \div 2
    IN Clamp(factor, MIN_ADAPTATION_FACTOR, MAX_ADAPTATION_FACTOR)

\* AdaptiveJitterBuffer::calculate_target_capacity
calculate_target_capacity(stats, cfg, monitor) ==
    IF ~monitor.attached THEN cfg.default_capacity
    ELSE LET recommended_size == get_recommended_jitter_buffer_size(
                                     monitor.metrics, cfg.min_capacity, cfg.max_capacity)
             t1 == IF stats.current_packet_loss_rate > cfg.packet_loss_threshold
                   THEN recommended_size + stats.current_packet_loss_rate \div 5
                   ELSE recommended_size
             t2 == IF stats.current_jitter_us > cfg.jitter_threshold_us THEN t1 + 1 ELSE t1
             t3 == IF stats.current_rtt_us > cfg.rtt_threshold_us THEN t2 + 1 ELSE t2
         IN Clamp(t3, cfg.min_capacity, cfg.max_capacity)

\* AdaptiveJitterBuffer::should_adapt
should_adapt(stats) == stats.since_last_adaptation >= MIN_ADAPTATION_INTERVAL

\* the packets get_next_packet hands out while the buffer is not empty, in order
RECURSIVE DrainAll(_)
DrainAll(jb) ==
    IF JB_is_empty(jb) THEN <<>>
    ELSE LET r == JB_get_next_packet(jb)
         IN IF r.has THEN <<r.packet>> \o DrainAll(r.jb) ELSE DrainAll(r.jb)

\* the re-add loop of migrate_packets_to_new_buffer
RECURSIVE ReAddAll(_, _)
ReAddAll(jb, packets) ==
    IF packets = <<>> THEN jb
    ELSE LET p == Head(packets)
         IN ReAddAll(JB_add_packet(jb, p.sequence_id, p.timestamp, p.audio_data).jb,
                     Tail(packets))

\* migrate_packets_to_new_buffer re-adding all but the first extracted packet
migrate_packets_skip_first(jb, new_capacity) ==
    LET packets == DrainAll(jb)
    IN ReAddAll(JB_new(new_capacity), IF packets = <<>> THEN packets ELSE Tail(packets))

\* AdaptiveJitterBuffer::migrate_packets_to_new_buffer: the new jitter_buffer_
migrate_packets_to_new_buffer(jb, new_capacity) ==
    ReAddAll(JB_new(new_capacity), DrainAll(jb))

\* std::vector push_back with the MAX_CAPACITY_HISTORY cap
PushHistory(hist, v) ==
    LET h == Append(hist, v)
    IN IF Len(h) > MAX_CAPACITY_HISTORY THEN Tail(h) ELSE h

\* AdaptiveJitterBuffer::apply_capacity_change
apply_capacity_change(A, new_capacity) ==
    IF new_capacity = A.stats.current_capacity THEN A
    ELSE [jb |-> migrate_packets_to_new_buffer(A.jb, new_capacity),
          stats |-> [A.stats EXCEPT
                        !.capacity_increases =
                            IF new_capacity > A.stats.current_capacity THEN @ + 1 ELSE @,
                        !.capacity_decreases =
                            IF new_capacity > A.stats.current_capacity THEN @ ELSE @ + 1,
                        !.current_capacity = new_capacity,
                        !.adaptations_count = @ + 1,
                        !.since_last_adaptation = 0],
          hist |-> PushHistory(A.hist, new_capacity)]

\* the capacity update_adaptation moves to from current_capacity toward target
next_capacity(stats, hist, cfg) ==
    LET adaptation_factor == calculate_adaptation_factor(stats, hist, cfg)
        current_capacity == stats.current_capacity
        capacity_diff == stats.target_capacity - current_capacity
        raw_change == TruncDiv(capacity_diff * cfg.adaptation_rate * adaptation_factor, 10000)
        capacity_change ==
            IF capacity_diff > 0 /\ raw_change <= 0 THEN 1
            ELSE IF capacity_diff < 0 /\ raw_change >= 0 THEN -1
            ELSE raw_change
    IN Clamp(current_capacity + capacity_change, cfg.min_capacity, cfg.max_capacity)

\* AdaptiveJitterBuffer::update_adaptation
update_adaptation(A, cfg, monitor) ==
    IF ~monitor.attached THEN A
    ELSE IF A.stats.since_last_update < cfg.update_interval THEN A
    ELSE LET st1 == [A.stats EXCEPT
                        !.current_network_quality = monitor.metrics.quality,
                        !.current_packet_loss_rate = monitor.metrics.packet_loss_rate,
                        !.current_rtt_us = monitor.metrics.avg_rtt_us,
                        !.current_jitter_us = monitor.metrics.jitter_us]
             new_target_capacity == calculate_target_capacity(st1, cfg, monitor)
             A1 == IF new_target_capacity # st1.target_capacity
                   THEN LET st2 == [st1 EXCEPT !.target_capacity = new_target_capacity]
                            new_capacity == next_capacity(st2, A.hist, cfg)
                            A2 == [A EXCEPT !.stats = st2]
                        IN IF new_capacity # st2.current_capacity
                           THEN apply_capacity_change(A2, new_capacity)
                           ELSE A2
                   ELSE [A EXCEPT !.stats = st1]
         IN [A1 EXCEPT !.stats.adaptation_factor =
                           calculate_adaptation_factor(A1.stats, A1.hist, cfg),
                       !.stats.since_last_update = 0]

\* AdaptiveJitterBuffer::update_utilization_stats
update_utilization_stats(A) ==
    IF JB_is_full(A.jb) THEN [A EXCEPT !.stats.overruns = @ + 1] ELSE A

\* AdaptiveJitterBuffer::add_packet: the members afterwards and the value returned
adaptive_add_packet(A, cfg, monitor, sequence_id, timestamp, audio_data) ==
    LET A1 == IF should_adapt(A.stats) THEN update_adaptation(A, cfg, monitor) ELSE A
        r == JB_add_packet(A1.jb, sequence_id, timestamp, audio_data)
    IN [A |-> update_utilization_stats([A1 EXCEPT !.jb = r.jb]), result |-> r.result]

\* AdaptiveJitterBuffer::get_next_packet: the members afterwards and the packet returned
adaptive_get_next_packet(A) ==
    LET r == JB_get_next_packet(A.jb)
        A1 == update_utilization_stats([A EXCEPT !.jb = r.jb])
        A2 == IF ~r.has /\ ~JB_is_empty(A1.jb)
              THEN [A1 EXCEPT !.stats.underruns = @ + 1] ELSE A1
    IN [A |-> A2, has |-> r.has, packet |-> r.packet]

\* set_capacity checking only the lower bound
adaptive_set_capacity_no_upper(A, cfg, capacity) ==
    IF capacity < cfg.min_capacity
    THEN [A |-> A, result |-> FALSE]
    ELSE [A |-> apply_capacity_change(A, capacity), result |-> TRUE]

\* AdaptiveJitterBuffer::set_capacity
adaptive_set_capacity(A, cfg, capacity) ==
    IF capacity < cfg.min_capacity \/ capacity > cfg.max_capacity
    THEN [A |-> A, result |-> FALSE]
    ELSE [A |-> apply_capacity_change(A, capacity), result |-> TRUE]

\* update_config raising the capacity to a new minimum but not lowering it to a
\* new maximum
adaptive_update_config_no_lowering(A, config) ==
    LET cfg == ValidateConfig(config)
    IN IF A.stats.current_capacity < cfg.min_capacity
       THEN apply_capacity_change(A, cfg.min_capacity)
       ELSE A

\* AdaptiveJitterBuffer::update_config: the members afterwards (config_ is ValidateConfig(config))
adaptive_update_config(A, config) ==
    LET cfg == ValidateConfig(config)
    IN IF A.stats.current_capacity < cfg.min_capacity
       THEN apply_capacity_change(A, cfg.min_capacity)
       ELSE IF A.stats.current_capacity > cfg.max_capacity
       THEN apply_capacity_change(A, cfg.max_capacity)
       ELSE A

\* AdaptiveJitterBuffer::reset
adaptive_reset(A, cfg) ==
    [jb |-> JB_new(cfg.default_capacity),
     stats |-> InitialStats(cfg),
     hist |-> <<>>]

\* AdaptiveJitterBuffer::get_capacity
get_capacity == jitter_buffer_.capacity

(***************************************************************************)
(* FECDecoder (network/fec_decoder.cpp).  A packet on the wire is the      *)
(* record [size, packet_type, sequence_id, redundant_sequence_id, payload]:*)
(* its length in bytes, the header fields FECHeader::deserialize reads and *)
(* the bytes after the header.  The steady clock is passed as now.         *)
(***************************************************************************)
HEADER_SIZE == 13
FEC_PRIMARY == 1
FEC_REDUNDANT == 2
MAX_BUFFER_SIZE == 100
PACKET_TIMEOUT_MS == 1000

\* a default-constructed FECRecoveryResult
NoRecovery ==
    [success |-> FALSE, sequence_id |-> 0, recovered_data |-> "",
     was_recovered_from_redundancy |-> FALSE, redundant_packet_used |-> 0,
     recovery_delay_packets |-> 0]

\* a default-constructed FECDecodeStats; average_recovery_delay_ms is kept in
\* units of 10^-5 ms, which is exact for up to five recoveries
NoDecodeStats ==
    [primary_packets_received |-> 0, redundant_packets_received |-> 0,
     packets_recovered |-> 0, recovery_attempts |-> 0, recovery_failures |-> 0,
     packets_lost_unrecoverable |-> 0, average_recovery_delay_ms |-> 0,
     max_recovery_delay_packets |-> 0]

\* FECDecoder::FECDecoder
FECDecoder_new(max_recovery_distance, buffer_size) ==
    [max_recovery_distance_ |-> max_recovery_distance,
     buffer_size_ |-> Min(buffer_size, MAX_BUFFER_SIZE),
     primary_packets_ |-> EmptyMap,
     redundant_packets_ |-> EmptyMap,
     recovery_timestamps_ |-> EmptyMap,
     stats_ |-> NoDecodeStats]

\* FECHeader::deserialize, for data of at least HEADER_SIZE bytes
FECHeader_deserialize(data) ==
    [packet_type |-> data.packet_type, sequence_id |-> data.sequence_id,
     redundant_sequence_id |-> data.redundant_sequence_id]

\* FECDecoder::is_packet_in_recovery_window
is_packet_in_recovery_window(d, sequence_id, current_sequence_id) ==
    IF current_sequence_id < sequence_id THEN FALSE
    ELSE current_sequence_id - sequence_id <= d.max_recovery_distance_

MapRestrict(m, keys) == [k \in keys |-> m[k]]

\* FECDecoder::cleanup_expired_packets
cleanup_expired_packets(d, current_sequence_id, current_time) ==
    LET expired(packet) == current_time - packet.timestamp_ms > PACKET_TIMEOUT_MS
        in_window(k) == is_packet_in_recovery_window(d, k, current_sequence_id)
        primary_kept ==
            {k \in DOMAIN d.primary_packets_ :
                ~expired(d.primary_packets_[k]) /\ in_window(k)}
        all_expired(packets) ==
            \A i \in 1..Len(packets) : expired(packets[i])
        redundant_kept ==
            {k \in DOMAIN d.redundant_packets_ :
                /\ in_window(k)
                /\ ~(d.redundant_packets_[k] # <<>> /\ all_expired(d.redundant_packets_[k]))}
        recovery_kept ==
            {k \in DOMAIN d.recovery_timestamps_ :
                ~(current_time - d.recovery_timestamps_[k] > PACKET_TIMEOUT_MS)}
    IN [d EXCEPT !.primary_packets_ = MapRestrict(@, primary_kept),
                 !.redundant_packets_ = MapRestrict(@, redundant_kept),
                 !.recovery_timestamps_ = MapRestrict(@, recovery_kept)]

\* FECDecoder::process_packet: the decoder afterwards and the result returned
process_packet(d, packet_data, now) ==
    IF packet_data.size < HEADER_SIZE THEN [decoder |-> d, result |-> NoRecovery]
    ELSE
    LET header == FECHeader_deserialize(packet_data)
        stored_packet ==
            [sequence_id |-> header.sequence_id,
             data |-> packet_data.payload,
             packet_type |-> header.packet_type,
             redundant_sequence_id |-> header.redundant_sequence_id,
             timestamp_ms |-> now,
             is_primary_data |-> header.packet_type = FEC_PRIMARY]
        d1 == IF header.packet_type = FEC_PRIMARY
              THEN [d EXCEPT
                      !.primary_packets_ = MapPut(@, header.sequence_id, stored_packet),
                      !.stats_.primary_packets_received = @ + 1]
              ELSE IF header.packet_type = FEC_REDUNDANT
              THEN [d EXCEPT
                      !.redundant_packets_ =
                          MapPut(@, header.redundant_sequence_id,
                                 IF header.redundant_sequence_id \in DOMAIN @
                                 THEN Append(@[header.redundant_sequence_id], stored_packet)
                                 ELSE <<stored_packet>>),
                      !.stats_.redundant_packets_received = @ + 1]
              ELSE d
        result ==
            IF header.packet_type = FEC_PRIMARY
            THEN [NoRecovery EXCEPT !.success = TRUE,
                                    !.sequence_id = header.sequence_id,
                                    !.recovered_data = packet_data.payload]
            ELSE NoRecovery
    IN [decoder |-> cleanup_expired_packets(d1, header.sequence_id, now),
        result |-> result]

\* FECDecoder::try_recover_from_redundancy
try_recover_from_redundancy(d, sequence_id, now) ==
    IF sequence_id \notin DOMAIN d.redundant_packets_
          \/ d.redundant_packets_[sequence_id] = <<>>
    THEN [decoder |-> [d EXCEPT !.stats_.recovery_failures = @ + 1],
          result |-> NoRecovery]
    ELSE LET redundant_packet == d.redundant_packets_[sequence_id][1]
             delay == IF redundant_packet.sequence_id > sequence_id
                      THEN redundant_packet.sequence_id - sequence_id ELSE 0
         IN [decoder |->
                [d EXCEPT !.stats_.max_recovery_delay_packets = Max(@, delay),
                          !.stats_.packets_recovered = @ + 1,
                          !.recovery_timestamps_ = MapPut(@, sequence_id, now)],
             result |->
                [success |-> TRUE, sequence_id |-> sequence_id,
                 recovered_data |-> redundant_packet.data,
                 was_recovered_from_redundancy |-> TRUE,
                 redundant_packet_used |-> redundant_packet.sequence_id,
                 recovery_delay_packets |-> delay]]

\* FECDecoder::update_recovery_stats: ALPHA is 0.1 and a packet lasts 2.5 ms
update_recovery_stats(d, result) ==
    IF ~result.success THEN d
    ELSE IF result.was_recovered_from_redundancy /\ result.recovery_delay_packets > 0
    THEN LET new_delay_ms == result.recovery_delay_packets * 250000
         IN [d EXCEPT !.stats_.average_recovery_delay_ms =
                          IF @ = 0 THEN new_delay_ms ELSE (9 * @ + new_delay_ms) \div 10]
    ELSE d

\* recover_packet that looks at the redundant copies before the primary
recover_packet_redundancy_first(d, sequence_id, now) ==
    LET d1 == [d EXCEPT !.stats_.recovery_attempts = @ + 1]
        r == try_recover_from_redundancy(d1, sequence_id, now)
    IN IF r.result.success \/ sequence_id \notin DOMAIN d.primary_packets_
       THEN [decoder |-> update_recovery_stats(r.decoder, r.result), result |-> r.result]
       ELSE [decoder |-> d1,
             result |-> [NoRecovery EXCEPT
                            !.success = TRUE,
                            !.sequence_id = sequence_id,
                            !.recovered_data = d.primary_packets_[sequence_id].data]]

\* FECDecoder::recover_packet: the decoder afterwards and the result returned
recover_packet(d, sequence_id, now) ==
    LET d1 == [d EXCEPT !.stats_.recovery_attempts = @ + 1]
    IN IF sequence_id \in DOMAIN d1.primary_packets_
       THEN [decoder |-> d1,
             result |-> [NoRecovery EXCEPT
                            !.success = TRUE,
                            !.sequence_id = sequence_id,
                            !.recovered_data = d1.primary_packets_[sequence_id].data]]
       ELSE LET r == try_recover_from_redundancy(d1, sequence_id, now)
            IN [decoder |-> update_recovery_stats(r.decoder, r.result),
                result |-> r.result]

\* FECDecoder::can_recover_packet
can_recover_packet(d, sequence_id) ==
    \/ sequence_id \in DOMAIN d.primary_packets_
    \/ /\ sequence_id \in DOMAIN d.redundant_packets_
       /\ d.redundant_packets_[sequence_id] # <<>>

\* FECDecoder::reset
FECDecoder_reset(d) ==
    [d EXCEPT !.primary_packets_ = EmptyMap,
              !.redundant_packets_ = EmptyMap,
              !.recovery_timestamps_ = EmptyMap,
              !.stats_ = NoDecodeStats]

\* FECDecoder::cleanup_old_packets
cleanup_old_packets(d, now) ==
    LET keys == DOMAIN d.primary_packets_ \cup DOMAIN d.redundant_packets_
        max_sequence_id == IF keys = {} THEN 0 ELSE MaxKey([k \in keys |-> k])
    IN cleanup_expired_packets(d, max_sequence_id, now)

(***************************************************************************)
(* The FECEncoder.  An encoder is the record [config_, packet_window_,     *)
(* stats_]; redundancy percentages are whole numbers of percent, packets   *)
(* on the wire are FECWire records.                                        *)
(***************************************************************************)
MIN_REDUNDANCY_PERCENTAGE == 0
MAX_REDUNDANCY_PERCENTAGE == 50
MAX_WINDOW_SIZE == 20
ENCODER_WINDOW_MS == 1000

FECConfig(redundancy_percentage, max_recovery_distance, window_size) ==
    [redundancy_percentage |-> redundancy_percentage,
     max_recovery_distance |-> max_recovery_distance,
     window_size |-> window_size,
     adaptive_redundancy |-> TRUE]

\* the clamping the constructor and update_config apply to a configuration
ClampFECConfig(config) ==
    [config EXCEPT
        !.redundancy_percentage =
            Clamp(@, MIN_REDUNDANCY_PERCENTAGE, MAX_REDUNDANCY_PERCENTAGE),
        !.window_size = Min(@, MAX_WINDOW_SIZE)]

\* a default-constructed FECEncoder::FECStats; average_redundancy_percentage
\* is kept in hundredths of a percent
NoEncodeStats ==
    [primary_packets_encoded |-> 0, redundant_packets_generated |-> 0,
     current_redundancy_percentage |-> 0, average_redundancy_percentage |-> 0,
     current_window_size |-> 0]

\* FECEncoder::FECEncoder
FECEncoder_new(config) ==
    [config_ |-> ClampFECConfig(config),
     packet_window_ |-> <<>>,
     stats_ |-> [NoEncodeStats EXCEPT !.current_redundancy_percentage =
                                          ClampFECConfig(config).redundancy_percentage]]

\* FECEncoder::create_primary_packet
create_primary_packet(sequence_id, audio_data) ==
    [size |-> HEADER_SIZE + 1, packet_type |-> FEC_PRIMARY,
     sequence_id |-> sequence_id, redundant_sequence_id |-> 0,
     payload |-> audio_data]

\* FECEncoder::update_packet_window: append, then drop from the front down to
\* window_size
update_packet_window(e, sequence_id, audio_data, now) ==
    LET record == [sequence_id |-> sequence_id, data |-> audio_data, timestamp_ms |-> now]
        pushed == Append(e.packet_window_, record)
    IN [e EXCEPT !.packet_window_ = LastN(pushed, Min(Len(pushed), e.config_.window_size))]

\* FECEncoder::calculate_redundant_packet_count, called with a window of at
\* least two entries
calculate_redundant_packet_count(e) ==
    IF e.config_.redundancy_percentage <= 0 THEN 0
    ELSE LET max_redundant ==
                 (e.config_.redundancy_percentage * e.config_.window_size + 99) \div 100
         IN Min(Min(max_redundant, Len(e.packet_window_) - 1),
                e.config_.max_recovery_distance)

\* a REDUNDANT packet that names its carrier as the protected packet
redundant_packet_for_carrier(sequence_id, old_packet) ==
    [size |-> HEADER_SIZE + 1, packet_type |-> FEC_REDUNDANT,
     sequence_id |-> sequence_id, redundant_sequence_id |-> sequence_id,
     payload |-> old_packet.data]

\* the REDUNDANT packet generate_redundant_packets builds from a window entry
redundant_packet_for(sequence_id, old_packet) ==
    [size |-> HEADER_SIZE + 1, packet_type |-> FEC_REDUNDANT,
     sequence_id |-> sequence_id, redundant_sequence_id |-> old_packet.sequence_id,
     payload |-> old_packet.data]

\* generate_redundant_packets that walks the window from its oldest entry
generate_redundant_packets_oldest_first(e, sequence_id) ==
    LET n == Len(e.packet_window_)
        count == Min(calculate_redundant_packet_count(e), n - 1)
    IN [i \in 1..count |-> redundant_packet_for(sequence_id, e.packet_window_[i])]

\* FECEncoder::generate_redundant_packets: the i-th packet (from 0) protects
\* packet_window_[size - 2 - i]
generate_redundant_packets(e, sequence_id) ==
    LET n == Len(e.packet_window_)
        count == Min(calculate_redundant_packet_count(e), n - 1)
    IN [i \in 1..count |-> redundant_packet_for(sequence_id, e.packet_window_[n - i])]

\* FECEncoder::cleanup_old_packets
FECEncoder_cleanup_old_packets(e, now) ==
    [e EXCEPT !.packet_window_ =
        SelectSeq(@, LAMBDA record : ~(now - record.timestamp_ms > ENCODER_WINDOW_MS))]

\* FECEncoder::encode_packet: the encoder afterwards and the packets returned
encode_packet(e, sequence_id, audio_data, now) ==
    LET e1 == update_packet_window(e, sequence_id, audio_data, now)
        redundant_packets ==
            IF Len(e1.packet_window_) > 1
            THEN generate_redundant_packets(e1, sequence_id) ELSE <<>>
        result == <<create_primary_packet(sequence_id, audio_data)>> \o redundant_packets
        encoded == e1.stats_.primary_packets_encoded + 1
        generated == e1.stats_.redundant_packets_generated + Len(result) - 1
        e2 == [e1 EXCEPT
                 !.stats_.primary_packets_encoded = encoded,
                 !.stats_.redundant_packets_generated = generated,
                 !.stats_.average_redundancy_percentage = (generated * 10000) \div encoded,
                 !.stats_.current_window_size = Len(e1.packet_window_)]
    IN [encoder |-> FECEncoder_cleanup_old_packets(e2, now), result |-> result]

\* set_redundancy_level that stores the value as given
set_redundancy_level_unclamped(e, redundancy_percentage) ==
    [e EXCEPT !.config_.redundancy_percentage = redundancy_percentage,
              !.stats_.current_redundancy_percentage = redundancy_percentage]

\* FECEncoder::set_redundancy_level
set_redundancy_level(e, redundancy_percentage) ==
    LET clamped == Clamp(redundancy_percentage,
                         MIN_REDUNDANCY_PERCENTAGE, MAX_REDUNDANCY_PERCENTAGE)
    IN [e EXCEPT !.config_.redundancy_percentage = clamped,
                 !.stats_.current_redundancy_percentage = clamped]

\* FECEncoder::update_config
FECEncoder_update_config(e, config) ==
    [e EXCEPT !.config_ = ClampFECConfig(config),
              !.stats_.current_redundancy_percentage =
                  ClampFECConfig(config).redundancy_percentage]

\* FECEncoder::reset
FECEncoder_reset(e) ==
    [e EXCEPT !.packet_window_ = <<>>,
              !.stats_ = [NoEncodeStats EXCEPT !.current_redundancy_percentage =
                                                   e.config_.redundancy_percentage]]

(***************************************************************************)
(* AudioPacket (src/pc-receiver/src/network/packet.cpp).  sequence_id and  *)
(* payload_size are numbers below 2^31; the 64-bit timestamp is kept as    *)
(* four 16-bit limbs, least significant first; a payload is the record     *)
(* [size, fill] of its length and its content.  Serialized data is the     *)
(* record [size, header, payload] of its length, its first 16 bytes and    *)
(* the bytes after them.                                                   *)
(***************************************************************************)
PACKET_HEADER_SIZE == 16
MAX_PAYLOAD_SIZE == 65536

NoWire == [size |-> 0, header |-> <<>>, payload |-> [size |-> 0, fill |-> ""]]
NotParsed == [state |-> "none"]
\* the nullptr AudioPacket::deserialize returns
NullAudioPacket == [state |-> "nullptr"]

\* AudioPacket::AudioPacket(seq_id, ts, data)
AudioPacket_new(seq_id, ts, data) ==
    [sequence_id |-> seq_id, timestamp |-> ts, payload_size |-> data.size, payload |-> data]

\* the bytes (v >> 0) & 0xFF ... (v >> 24) & 0xFF of a 32-bit value
Bytes32(v) ==
    <<v % 256, (v \div 256) % 256, (v \div 65536) % 256, (v \div 16777216) % 256>>

\* the bytes (v >> 0) & 0xFF ... (v >> 56) & 0xFF of a 64-bit value
Bytes64(v) ==
    <<v[1] % 256, v[1] \div 256, v[2] % 256, v[2] \div 256,
      v[3] % 256, v[3] \div 256, v[4] % 256, v[4] \div 256>>

\* data[at] | data[at + 1] << 8 | data[at + 2] << 16 | data[at + 3] << 24,
\* with at counted from 0
Read32(data, at) ==
    data[at + 1] + 256 * data[at + 2] + 65536 * data[at + 3] + 16777216 * data[at + 4]

\* the eight bytes from data[at] read as a 64-bit value
Read64(data, at) ==
    <<data[at + 1] + 256 * data[at + 2], data[at + 3] + 256 * data[at + 4],
      data[at + 5] + 256 * data[at + 6], data[at + 7] + 256 * data[at + 8]>>

\* AudioPacket::is_valid
is_valid(packet) ==
    packet.payload_size = packet.payload.size /\ packet.payload_size <= MAX_PAYLOAD_SIZE

\* AudioPacket::total_size
total_size(packet) == PACKET_HEADER_SIZE + packet.payload_size

\* serialize writing payload_size most significant byte first
serialize_big_endian_size(packet) ==
    LET size_bytes == Bytes32(packet.payload_size)
    IN [size |-> PACKET_HEADER_SIZE + packet.payload.size,
        header |-> Bytes32(packet.sequence_id) \o Bytes64(packet.timestamp)
                       \o <<size_bytes[4], size_bytes[3], size_bytes[2], size_bytes[1]>>,
        payload |-> packet.payload]

\* AudioPacket::serialize
serialize(packet) ==
    [size |-> PACKET_HEADER_SIZE + packet.payload.size,
     header |-> Bytes32(packet.sequence_id) \o Bytes64(packet.timestamp)
                    \o Bytes32(packet.payload_size),
     payload |-> packet.payload]

\* AudioPacket::deserialize: the packet made, or nullptr
deserialize(data) ==
    IF data.size < PACKET_HEADER_SIZE THEN NullAudioPacket
    ELSE LET payload_size == Read32(data.header, 12)
         IN IF data.size < PACKET_HEADER_SIZE + payload_size THEN NullAudioPacket
            ELSE LET packet ==
                         [sequence_id |-> Read32(data.header, 0),
                          timestamp |-> Read64(data.header, 4),
                          payload_size |-> payload_size,
                          payload |-> [size |-> payload_size,
                                       fill |-> IF payload_size = 0 THEN ""
                                                ELSE data.payload.fill]]
                 IN IF is_valid(packet) THEN [state |-> "packet", packet |-> packet]
                    ELSE NullAudioPacket

(***************************************************************************)
(* Inputs of the calls.                                                    *)
(***************************************************************************)
SeqIds == 1..MaxSid

GoodFrameA == [size |-> FrameSize * Channels, pcm |-> "a"]
GoodFrameB == [size |-> FrameSize * Channels, pcm |-> "b"]
\* a mono frame offered to a stereo buffer
ShortFrame == [size |-> FrameSize, pcm |-> "a"]

\* (timestamp, audio_data) pairs offered to JitterBuffer::add_packet
Payloads ==
    { [timestamp |-> 1000, audio_data |-> GoodFrameA],
      [timestamp |-> 2000, audio_data |-> GoodFrameB],
      [timestamp |-> 1000, audio_data |-> ShortFrame] }
\* the (timestamp, audio_data) offered to AdaptiveJitterBuffer::add_packet with a
\* sequence id: capture times 2.5 ms apart, contents alternating
AdaptivePayload(sequence_id) ==
    [timestamp |-> 2500 * sequence_id,
     audio_data |-> IF sequence_id % 2 = 1 THEN GoodFrameA ELSE GoodFrameB]
\* capacities a plain JitterBuffer is constructed with
PlainCapacities == {1, 2, 3}

\* configurations given to the constructor and to update_config
DefaultConfig == AdaptiveJitterConfig(3, 10, 5, 10)
SmallConfig == AdaptiveJitterConfig(2, 4, 3, 2)
DegenerateConfig == AdaptiveJitterConfig(0, 0, 9, 10)
ConfigInputs == {DefaultConfig, SmallConfig, DegenerateConfig}

\* capacities given to set_capacity
CapacityInputs == {2, 3, 6, 11}

\* what the monitor may report: idle (EXCELLENT), FAIR (loss above the adaptive
\* threshold, jitter above GOOD), POOR (20 % loss, 100 ms RTT)
MetricSamples ==
    { Metrics(0, 0, 0),
      Metrics(6, 30000, 6000),
      Metrics(20, 100000, 0) }

\* amounts of time that pass between calls, in ms
TimeSteps == {500}
\* the largest update_interval of ConfigInputs: elapsed times saturate there
MaxUpdateInterval == 500

\* packets on the wire: PRIMARY packets, REDUNDANT packets carried by
\* sequence_id for redundant_sequence_id, one with an unknown type byte and one
\* shorter than the header
FECWire(packet_type, sequence_id, redundant_sequence_id, payload) ==
    [size |-> HEADER_SIZE + 1, packet_type |-> packet_type,
     sequence_id |-> sequence_id, redundant_sequence_id |-> redundant_sequence_id,
     payload |-> payload]

FecPayloads == {"p", "q"}

FecWireInputs ==
    {FECWire(FEC_PRIMARY, s, 0, b) : s \in SeqIds, b \in FecPayloads}
    \cup {FECWire(FEC_REDUNDANT, s, r, "q") : s \in SeqIds, r \in SeqIds}
    \cup {FECWire(3, 1, 0, "p")}
    \cup {[FECWire(FEC_PRIMARY, 1, 0, "") EXCEPT !.size = HEADER_SIZE - 1]}

\* packets given to serialize: sequence ids and timestamps with a byte set in
\* every position, payloads of the lengths around the limits
PacketSequenceIds == {0, 123, 16909060, 2147483647}
PacketTimestamps ==
    { <<0, 0, 0, 0>>, <<63573, 6, 0, 0>>, <<513, 1027, 1541, 2055>>,
      <<65535, 65535, 65535, 65535>> }
PacketPayloads ==
    {[size |-> 0, fill |-> ""]}
    \cup {[size |-> n, fill |-> f] : n \in {1, 4, 1500, MAX_PAYLOAD_SIZE, MAX_PAYLOAD_SIZE + 1},
                                     f \in {"a", "b"}}

\* the monitor under test: an RTT window of three samples, recalculation at
\* most once a second
MonWindowSize == 3
MonUpdateInterval == 1000
\* numbers of packets recorded in a row and their size in bytes
MonSentBursts == {100}
MonReceivedBursts == {75, 95, 98, 100}
MonPacketBytes == 100
\* round-trip times recorded, in microseconds
MonRttSamples == {4000, 6000, 30000, 52000}
\* the sizes get_recommended_jitter_buffer_size is asked to stay within
MonMinSize == 3
MonMaxSize == 10

\* the max_recovery_distance a decoder is constructed with
RecoveryDistances == {1, 5}

\* configurations given to the FECEncoder constructor and to update_config:
\* the default, one above both limits, one with a negative percentage and one
\* with a window of two packets
EncoderConfigs ==
    { FECConfig(20, 5, 10), FECConfig(75, 1, 25), FECConfig(-5, 5, 3), FECConfig(50, 5, 2) }
\* percentages given to set_redundancy_level
RedundancyLevels == {-5, 0, 20, 75}

\* the two ends of a link: encoder configurations (that of the recovery test,
\* the default, one that allows no recovery distance, one without redundancy)
\* and the max_recovery_distance of the decoder
LinkConfigs ==
    { FECConfig(50, 5, 5), FECConfig(20, 5, 10), FECConfig(20, 0, 3), FECConfig(0, 5, 10) }
LinkRecoveryDistances == {0, 1, 5}
\* amounts of time that pass between decoder calls, in ms
FecTimeSteps == {600}

\* no thread is inside a call of the adaptive buffer
IdleChanger == [pc |-> "idle", capacity |-> 0, packets |-> <<>>, readded |-> 0]
IdleWorker == [pc |-> "idle", op |-> "none", sequence_id |-> 0, ptr |-> 0,
               result |-> FALSE, packet |-> NullPacket]
NoView == [live |-> TRUE, held |-> 0, op |-> "none"]

ConcIdle ==
    /\ adaptive_mutex_ = "free"
    /\ buffer_id = 0
    /\ changer = IdleChanger
    /\ worker = IdleWorker
    /\ view = NoView

\* a default-constructed AudioPacket, neither serialized nor parsed
PktIdle ==
    /\ audio_packet = AudioPacket_new(0, <<0, 0, 0, 0>>, [size |-> 0, fill |-> ""])
    /\ wire = NoWire
    /\ parsed = NotParsed

\* a monitor as NetworkMonitor() constructs it, at time 0
MonIdle == monitor_ = NetworkMonitor_new(100, 1000, 0)

\* no thread inside encode_packet, no pipeline constructed
NoEncCall == [pc |-> "idle"]
NoPipeline == [constructed |-> FALSE]
NoThreads == [constructed |-> FALSE]
ThreadsIdle ==
    /\ enc_call = NoEncCall
    /\ pipeline_ = NoPipeline
    /\ threads_ = NoThreads

\* an encoder as FECEncoder() constructs it, nothing in flight
NetIdle ==
    /\ fec_encoder_ = FECEncoder_new(FECConfig(20, 5, 10))
    /\ link = <<>>
    /\ sent = EmptyMap
    /\ PktIdle
    /\ MonIdle
    /\ ThreadsIdle

\* a decoder as FECDecoder() constructs it, at time 0
FecIdle ==
    /\ fec_decoder_ = FECDecoder_new(5, 20)
    /\ now_ms = 0
    /\ current_max = 0

(***************************************************************************)
(* The adaptive buffer as a state machine.                                 *)
(***************************************************************************)
cur == [jb |-> jitter_buffer_, stats |-> stats_, hist |-> capacity_history_]

Install(A) ==
    /\ jitter_buffer_' = A.jb
    /\ stats_' = A.stats
    /\ capacity_history_' = A.hist

Called(op, result, packet, arg) ==
    /\ calls < MaxCalls
    /\ calls' = calls + 1
    /\ ret' = [op |-> op, result |-> result, packet |-> packet, arg |-> arg]

\* AdaptiveJitterBuffer::AdaptiveJitterBuffer(FrameSize, Channels, config)
Init ==
    /\ \E config \in ConfigInputs :
          /\ config_ = ValidateConfig(config)
          /\ jitter_buffer_ = JB_new(ValidateConfig(config).default_capacity)
          /\ stats_ = InitialStats(ValidateConfig(config))
    /\ capacity_history_ = <<>>
    /\ network_monitor_ = [attached |-> FALSE, metrics |-> Metrics(0, 0, 0)]
    /\ ret = [op |-> "constructor", result |-> TRUE, packet |-> NullPacket, arg |-> 0]
    /\ released = <<>>
    /\ calls = 0
    /\ ConcIdle
    /\ NetIdle
    /\ FecIdle

SetNetworkMonitor ==
    /\ ~network_monitor_.attached
    /\ network_monitor_' = [network_monitor_ EXCEPT !.attached = TRUE]
    /\ Called("set_network_monitor", TRUE, NullPacket, 0)
    /\ UNCHANGED <<jitter_buffer_, config_, stats_, capacity_history_, released>>
    /\ UNCHANGED <<concVars, fecVars, netVars>>

AddPacket ==
    \E sequence_id \in SeqIds :
        LET p == AdaptivePayload(sequence_id)
            r == adaptive_add_packet(cur, config_, network_monitor_,
                                     sequence_id, p.timestamp, p.audio_data)
        IN /\ Install(r.A)
           /\ Called("add_packet", r.result, NullPacket, sequence_id)
           /\ UNCHANGED <<config_, network_monitor_, released>>
           /\ UNCHANGED <<concVars, fecVars, netVars>>

GetNextPacket ==
    LET r == adaptive_get_next_packet(cur)
    IN /\ Install(r.A)
       /\ Called("get_next_packet", r.has, r.packet, 0)
       /\ UNCHANGED <<config_, network_monitor_, released>>
       /\ UNCHANGED <<concVars, fecVars, netVars>>

UpdateAdaptation ==
    /\ Install(update_adaptation(cur, config_, network_monitor_))
    /\ Called("update_adaptation", TRUE, NullPacket, 0)
    /\ UNCHANGED <<config_, network_monitor_, released>>
    /\ UNCHANGED <<concVars, fecVars, netVars>>

SetCapacity ==
    \E capacity \in CapacityInputs :
        LET r == adaptive_set_capacity(cur, config_, capacity)
        IN /\ Install(r.A)
           /\ Called("set_capacity", r.result, NullPacket, capacity)
           /\ UNCHANGED <<config_, network_monitor_, released>>
           /\ UNCHANGED <<concVars, fecVars, netVars>>

UpdateConfig ==
    \E config \in ConfigInputs :
        /\ config_' = ValidateConfig(config)
        /\ Install(adaptive_update_config(cur, config))
        /\ Called("update_config", TRUE, NullPacket, 0)
        /\ UNCHANGED <<network_monitor_, released>>
        /\ UNCHANGED <<concVars, fecVars, netVars>>

Reset ==
    /\ Install(adaptive_reset(cur, config_))
    /\ Called("reset", TRUE, NullPacket, 0)
    /\ UNCHANGED <<config_, network_monitor_, released>>
    /\ UNCHANGED <<concVars, fecVars, netVars>>

\* the monitor's metrics change as it observes the network
MonitorObserve ==
    \E m \in MetricSamples :
        /\ network_monitor_.attached
        /\ network_monitor_' = [network_monitor_ EXCEPT !.metrics = m]
        /\ UNCHANGED <<jitter_buffer_, config_, stats_, capacity_history_,
                       ret, released, calls>>
        /\ UNCHANGED <<concVars, fecVars, netVars>>

\* time passes
Advance ==
    \E d \in TimeSteps :
        /\ stats_' = [stats_ EXCEPT
                         !.since_last_adaptation = Min(@ + d, MIN_ADAPTATION_INTERVAL),
                         !.since_last_update = Min(@ + d, MaxUpdateInterval)]
        /\ UNCHANGED <<jitter_buffer_, config_, capacity_history_, network_monitor_,
                       ret, released, calls>>
        /\ UNCHANGED <<concVars, fecVars, netVars>>

Next ==
    \/ SetNetworkMonitor
    \/ AddPacket
    \/ GetNextPacket
    \/ UpdateAdaptation
    \/ SetCapacity
    \/ UpdateConfig
    \/ Reset
    \/ MonitorObserve
    \/ Advance

Spec == Init /\ [][Next]_vars

(***************************************************************************)
(* A plain JitterBuffer as a state machine, as AudioPipeline owns it       *)
(* (audio_pipeline.cpp:61): only jitter_buffer_, ret, released and calls   *)
(* change.                                                                 *)
(***************************************************************************)
JBCalled(op, result, packet) ==
    /\ calls < MaxJBCalls
    /\ calls' = calls + 1
    /\ ret' = [op |-> op, result |-> result, packet |-> packet, arg |-> 0]

\* JitterBuffer::JitterBuffer(capacity, FrameSize, Channels)
InitJB ==
    /\ \E capacity \in PlainCapacities : jitter_buffer_ = JB_new(capacity)
    /\ config_ = ValidateConfig(DefaultConfig)
    /\ stats_ = InitialStats(ValidateConfig(DefaultConfig))
    /\ capacity_history_ = <<>>
    /\ network_monitor_ = [attached |-> FALSE, metrics |-> Metrics(0, 0, 0)]
    /\ ret = [op |-> "constructor", result |-> TRUE, packet |-> NullPacket, arg |-> 0]
    /\ released = <<>>
    /\ calls = 0
    /\ ConcIdle
    /\ NetIdle
    /\ FecIdle

JBAddPacket ==
    \E sequence_id \in SeqIds, p \in Payloads :
        LET r == JB_add_packet(jitter_buffer_, sequence_id, p.timestamp, p.audio_data)
        IN /\ jitter_buffer_' = r.jb
           /\ JBCalled("add_packet", r.result,
                       [sequence_id |-> sequence_id, timestamp |-> p.timestamp,
                        audio_data |-> p.audio_data])
           /\ UNCHANGED <<config_, stats_, capacity_history_, network_monitor_, released>>
           /\ UNCHANGED <<concVars, fecVars, netVars>>

JBGetNextPacket ==
    LET r == JB_get_next_packet(jitter_buffer_)
    IN /\ jitter_buffer_' = r.jb
       /\ JBCalled("get_next_packet", r.has, r.packet)
       /\ released' = IF r.has THEN Append(released, r.packet.sequence_id) ELSE released
       /\ UNCHANGED <<config_, stats_, capacity_history_, network_monitor_>>
       /\ UNCHANGED <<concVars, fecVars, netVars>>

JBClear ==
    /\ jitter_buffer_' = JB_clear(jitter_buffer_)
    /\ JBCalled("clear", TRUE, NullPacket)
    /\ UNCHANGED <<config_, stats_, capacity_history_, network_monitor_, released>>
    /\ UNCHANGED <<concVars, fecVars, netVars>>

NextJB ==
    \/ JBAddPacket
    \/ JBGetNextPacket
    \/ JBClear

SpecJB == InitJB /\ [][NextJB]_vars

(***************************************************************************)
(* The FECDecoder as a state machine: only fec_decoder_, now_ms, ret and   *)
(* calls change.  ret.result is the FECRecoveryResult returned, ret.arg    *)
(* the argument of the call.                                               *)
(***************************************************************************)
FecCalled(op, result, arg) ==
    /\ calls < MaxFecCalls
    /\ calls' = calls + 1
    /\ ret' = [op |-> op, result |-> result, packet |-> NullPacket, arg |-> arg]

fecFrame ==
    UNCHANGED <<jitter_buffer_, config_, stats_, capacity_history_, network_monitor_,
                released, concVars, netVars>>

\* a packet with a whole header whose type byte is PRIMARY or REDUNDANT
HasFECType(packet_data) ==
    /\ packet_data.size >= HEADER_SIZE
    /\ packet_data.packet_type \in {FEC_PRIMARY, FEC_REDUNDANT}

\* FECDecoder::FECDecoder(max_recovery_distance)
InitFEC ==
    /\ \E distance \in RecoveryDistances : fec_decoder_ = FECDecoder_new(distance, 20)
    /\ now_ms = 0
    /\ current_max = 0
    /\ jitter_buffer_ = JB_new(ValidateConfig(DefaultConfig).default_capacity)
    /\ config_ = ValidateConfig(DefaultConfig)
    /\ stats_ = InitialStats(ValidateConfig(DefaultConfig))
    /\ capacity_history_ = <<>>
    /\ network_monitor_ = [attached |-> FALSE, metrics |-> Metrics(0, 0, 0)]
    /\ ret = [op |-> "constructor", result |-> NoRecovery, packet |-> NullPacket, arg |-> 0]
    /\ released = <<>>
    /\ calls = 0
    /\ ConcIdle
    /\ NetIdle

FecProcessPacket ==
    \E packet_data \in FecWireInputs :
        LET r == process_packet(fec_decoder_, packet_data, now_ms)
        IN /\ fec_decoder_' = r.decoder
           /\ FecCalled("process_packet", r.result, packet_data)
           /\ current_max' = IF HasFECType(packet_data)
                              THEN Max(current_max, packet_data.sequence_id)
                              ELSE current_max
           /\ UNCHANGED now_ms
           /\ fecFrame

FecRecoverPacket ==
    \E sequence_id \in SeqIds :
        LET r == recover_packet(fec_decoder_, sequence_id, now_ms)
        IN /\ fec_decoder_' = r.decoder
           /\ FecCalled("recover_packet", r.result, sequence_id)
           /\ UNCHANGED <<now_ms, current_max>>
           /\ fecFrame

FecReset ==
    /\ fec_decoder_' = FECDecoder_reset(fec_decoder_)
    /\ FecCalled("reset", NoRecovery, 0)
    /\ current_max' = 0
    /\ UNCHANGED now_ms
    /\ fecFrame

FecCleanupOldPackets ==
    /\ fec_decoder_' = cleanup_old_packets(fec_decoder_, now_ms)
    /\ FecCalled("cleanup_old_packets", NoRecovery, 0)
    /\ UNCHANGED <<now_ms, current_max>>
    /\ fecFrame

\* time passes
FecAdvance ==
    \E d \in FecTimeSteps :
        /\ now_ms + d <= MaxNowMs
        /\ now_ms' = now_ms + d
        /\ UNCHANGED <<fec_decoder_, current_max, ret, calls>>
        /\ fecFrame

NextFEC ==
    \/ FecProcessPacket
    \/ FecRecoverPacket
    \/ FecReset
    \/ FecCleanupOldPackets
    \/ FecAdvance

SpecFEC == InitFEC /\ [][NextFEC]_vars

(***************************************************************************)
(* The FECEncoder as a state machine: only fec_encoder_, now_ms, ret and   *)
(* calls change.  ret.result is the sequence of packets encode_packet      *)
(* returned, ret.arg the argument of the call.                             *)
(***************************************************************************)
EncCalled(op, result, arg) ==
    /\ calls < MaxEncCalls
    /\ calls' = calls + 1
    /\ ret' = [op |-> op, result |-> result, packet |-> NullPacket, arg |-> arg]

othersFrame ==
    UNCHANGED <<jitter_buffer_, config_, stats_, capacity_history_, network_monitor_,
                released, concVars, pktVars, monitor_, threadVars>>

encFrame == othersFrame /\ UNCHANGED <<fec_decoder_, current_max, link, sent>>

\* the state of the components a specification of the network side leaves alone
OthersIdle ==
    /\ jitter_buffer_ = JB_new(ValidateConfig(DefaultConfig).default_capacity)
    /\ config_ = ValidateConfig(DefaultConfig)
    /\ stats_ = InitialStats(ValidateConfig(DefaultConfig))
    /\ capacity_history_ = <<>>
    /\ network_monitor_ = [attached |-> FALSE, metrics |-> Metrics(0, 0, 0)]
    /\ released = <<>>
    /\ ConcIdle
    /\ PktIdle
    /\ MonIdle
    /\ ThreadsIdle

\* FECEncoder::FECEncoder(config)
InitEnc ==
    /\ \E config \in EncoderConfigs : fec_encoder_ = FECEncoder_new(config)
    /\ link = <<>>
    /\ sent = EmptyMap
    /\ FecIdle
    /\ OthersIdle
    /\ ret = [op |-> "constructor", result |-> <<>>, packet |-> NullPacket, arg |-> 0]
    /\ calls = 0

EncEncodePacket ==
    \E sequence_id \in SeqIds, audio_data \in FecPayloads :
        LET r == encode_packet(fec_encoder_, sequence_id, audio_data, now_ms)
        IN /\ fec_encoder_' = r.encoder
           /\ EncCalled("encode_packet", r.result,
                        [sequence_id |-> sequence_id, audio_data |-> audio_data])
           /\ UNCHANGED now_ms
           /\ encFrame

EncSetRedundancyLevel ==
    \E redundancy_percentage \in RedundancyLevels :
        /\ fec_encoder_' = set_redundancy_level(fec_encoder_, redundancy_percentage)
        /\ EncCalled("set_redundancy_level", <<>>, redundancy_percentage)
        /\ UNCHANGED now_ms
        /\ encFrame

EncUpdateConfig ==
    \E config \in EncoderConfigs :
        /\ fec_encoder_' = FECEncoder_update_config(fec_encoder_, config)
        /\ EncCalled("update_config", <<>>, config)
        /\ UNCHANGED now_ms
        /\ encFrame

EncReset ==
    /\ fec_encoder_' = FECEncoder_reset(fec_encoder_)
    /\ EncCalled("reset", <<>>, 0)
    /\ UNCHANGED now_ms
    /\ encFrame

\* time passes
EncAdvance ==
    \E d \in FecTimeSteps :
        /\ now_ms + d <= MaxNowMs
        /\ now_ms' = now_ms + d
        /\ UNCHANGED <<fec_encoder_, ret, calls>>
        /\ encFrame

NextEnc ==
    \/ EncEncodePacket
    \/ EncSetRedundancyLevel
    \/ EncUpdateConfig
    \/ EncReset
    \/ EncAdvance

SpecEnc == InitEnc /\ [][NextEnc]_vars

(***************************************************************************)
(* The FECEncoder shared by two threads.  FECEncoder has no mutex and no   *)
(* atomic member (fec_encoder.h), so a thread inside encode_packet can be  *)
(* interleaved with another thread's set_redundancy_level, update_config   *)
(* or reset between any two of its accesses to packet_window_, config_ and *)
(* stats_.  enc_call is the encoding thread: its position, its locals,     *)
(* the encoder as it was when the call began and the call the other        *)
(* thread made meanwhile.  The other thread's calls are taken whole, at    *)
(* most one of them during an encode_packet; time stands still.            *)
(***************************************************************************)
\* a value of size_t that has wrapped below zero: above every size that occurs
SIZE_T_WRAPPED == 2147483647

\* packet_window_.size() - k in size_t
WindowSizeMinus(e, k) ==
    IF Len(e.packet_window_) >= k THEN Len(e.packet_window_) - k ELSE SIZE_T_WRAPPED

\* FECEncoder::calculate_redundant_packet_count on whatever window it meets
calculate_redundant_packet_count_size_t(e) ==
    IF e.config_.redundancy_percentage <= 0 THEN 0
    ELSE LET max_redundant ==
                 (e.config_.redundancy_percentage * e.config_.window_size + 99) \div 100
         IN Min(Min(max_redundant, WindowSizeMinus(e, 1)),
                e.config_.max_recovery_distance)

\* no call of the other thread
NoOtherCall == [op |-> "none"]

\* what packet_window_[index] yields when index is outside the window
GARBAGE_RECORD == [sequence_id |-> 0, data |-> "garbage", timestamp_ms |-> 0]

IdleEncCall(started) ==
    [pc |-> "idle", sequence_id |-> 0, audio_data |-> "", result |-> <<>>,
     redundant_count |-> 0, i |-> 0, started |-> started, other |-> NoOtherCall,
     outside |-> FALSE]

\* the call the other thread made, applied to an encoder
ApplyOtherCall(e, other) ==
    CASE other.op = "set_redundancy_level" ->
             set_redundancy_level(e, other.redundancy_percentage)
      [] other.op = "update_config" -> FECEncoder_update_config(e, other.config)
      [] other.op = "reset" -> FECEncoder_reset(e)
      [] OTHER -> e

\* what encode_packet and the other thread's call leave and return when one
\* runs wholly before the other
SequentialOutcomes(started, sequence_id, audio_data, other) ==
    LET first == encode_packet(started, sequence_id, audio_data, 0)
        second == encode_packet(ApplyOtherCall(started, other), sequence_id, audio_data, 0)
    IN { [encoder |-> ApplyOtherCall(first.encoder, other), result |-> first.result],
         second }

EncConcCalled(op, result, arg) ==
    /\ calls' = calls + 1
    /\ ret' = [op |-> op, result |-> result, packet |-> NullPacket, arg |-> arg]

encConcFrame ==
    UNCHANGED <<jitter_buffer_, config_, stats_, capacity_history_, network_monitor_,
                released, concVars, pktVars, monitor_, pipeline_, threads_,
                fecVars, link, sent>>

\* FECEncoder::FECEncoder(config), no thread inside a call
InitEncConc ==
    /\ \E config \in EncoderConfigs :
           /\ fec_encoder_ = FECEncoder_new(config)
           /\ enc_call = IdleEncCall(FECEncoder_new(config))
    /\ pipeline_ = NoPipeline
    /\ threads_ = NoThreads
    /\ link = <<>>
    /\ sent = EmptyMap
    /\ FecIdle
    /\ jitter_buffer_ = JB_new(ValidateConfig(DefaultConfig).default_capacity)
    /\ config_ = ValidateConfig(DefaultConfig)
    /\ stats_ = InitialStats(ValidateConfig(DefaultConfig))
    /\ capacity_history_ = <<>>
    /\ network_monitor_ = [attached |-> FALSE, metrics |-> Metrics(0, 0, 0)]
    /\ released = <<>>
    /\ ConcIdle
    /\ PktIdle
    /\ MonIdle
    /\ ret = [op |-> "constructor", result |-> <<>>, packet |-> NullPacket,
              arg |-> NoOtherCall]
    /\ calls = 0

\* encode_packet is entered: result holds the primary packet (lines 103-107)
EncConcBegin ==
    \E audio_data \in FecPayloads :
        /\ enc_call.pc = "idle"
        /\ calls < MaxEncCalls
        /\ enc_call' = [IdleEncCall(fec_encoder_) EXCEPT
                           !.pc = "update_packet_window",
                           !.sequence_id = calls + 1,
                           !.audio_data = audio_data,
                           !.result = <<create_primary_packet(calls + 1, audio_data)>>]
        /\ UNCHANGED <<fec_encoder_, ret, calls>>
        /\ encConcFrame

\* update_packet_window(sequence_id, audio_data) (line 110)
EncConcUpdatePacketWindow ==
    /\ enc_call.pc = "update_packet_window"
    /\ fec_encoder_' = update_packet_window(fec_encoder_, enc_call.sequence_id,
                                            enc_call.audio_data, now_ms)
    /\ enc_call' = [enc_call EXCEPT !.pc = "check_history"]
    /\ UNCHANGED <<ret, calls>>
    /\ encConcFrame

\* if (packet_window_.size() > 1) (line 113)
EncConcCheckHistory ==
    /\ enc_call.pc = "check_history"
    /\ enc_call' = [enc_call EXCEPT
                       !.pc = IF Len(fec_encoder_.packet_window_) > 1
                              THEN "calculate_count" ELSE "update_stats"]
    /\ UNCHANGED <<fec_encoder_, ret, calls>>
    /\ encConcFrame

\* size_t redundant_count = calculate_redundant_packet_count() (line 192)
EncConcCalculateCount ==
    /\ enc_call.pc = "calculate_count"
    /\ enc_call' = [enc_call EXCEPT
                       !.pc = "generate",
                       !.redundant_count = calculate_redundant_packet_count_size_t(fec_encoder_),
                       !.i = 0]
    /\ UNCHANGED <<fec_encoder_, ret, calls>>
    /\ encConcFrame

\* one pass of the loop of generate_redundant_packets (lines 195-214): the
\* condition, then packet_window_[packet_window_.size() - 2 - i], which is
\* undefined outside the window: the thread crashes or reads something
EncConcGenerate ==
    /\ enc_call.pc = "generate"
    /\ LET size == Len(fec_encoder_.packet_window_)
           index == WindowSizeMinus(fec_encoder_, 2 + enc_call.i)
       IN IF enc_call.i < enc_call.redundant_count
             /\ enc_call.i < WindowSizeMinus(fec_encoder_, 1)
          THEN IF index < size
               THEN enc_call' = [enc_call EXCEPT
                        !.result = Append(@, redundant_packet_for(
                                       enc_call.sequence_id,
                                       fec_encoder_.packet_window_[index + 1])),
                        !.i = @ + 1]
               ELSE \/ enc_call' = [enc_call EXCEPT !.pc = "crashed", !.outside = TRUE]
                    \/ enc_call' = [enc_call EXCEPT
                           !.result = Append(@, redundant_packet_for(
                                          enc_call.sequence_id, GARBAGE_RECORD)),
                           !.i = @ + 1,
                           !.outside = TRUE]
          ELSE enc_call' = [enc_call EXCEPT !.pc = "update_stats"]
    /\ UNCHANGED <<fec_encoder_, ret, calls>>
    /\ encConcFrame

\* the statistics (lines 119-130)
EncConcUpdateStats ==
    /\ enc_call.pc = "update_stats"
    /\ LET encoded == fec_encoder_.stats_.primary_packets_encoded + 1
           generated == fec_encoder_.stats_.redundant_packets_generated
                            + Len(enc_call.result) - 1
       IN fec_encoder_' = [fec_encoder_ EXCEPT
              !.stats_.primary_packets_encoded = encoded,
              !.stats_.redundant_packets_generated = generated,
              !.stats_.average_redundancy_percentage = (generated * 10000) \div encoded,
              !.stats_.current_window_size = Len(fec_encoder_.packet_window_)]
    /\ enc_call' = [enc_call EXCEPT !.pc = "cleanup_old_packets"]
    /\ UNCHANGED <<ret, calls>>
    /\ encConcFrame

\* cleanup_old_packets(); return result (lines 132-133)
EncConcReturn ==
    /\ enc_call.pc = "cleanup_old_packets"
    /\ fec_encoder_' = FECEncoder_cleanup_old_packets(fec_encoder_, now_ms)
    /\ enc_call' = [enc_call EXCEPT !.pc = "idle"]
    /\ EncConcCalled("encode_packet", enc_call.result,
                     [op |-> "encode_packet", sequence_id |-> enc_call.sequence_id,
                      audio_data |-> enc_call.audio_data])
    /\ encConcFrame

\* the other thread's call, noted when it falls inside an encode_packet
OtherCalls(other) ==
    /\ enc_call.pc = "idle" \/ enc_call.other = NoOtherCall
    /\ fec_encoder_' = ApplyOtherCall(fec_encoder_, other)
    /\ enc_call' = IF enc_call.pc = "idle" THEN enc_call
                   ELSE [enc_call EXCEPT !.other = other]
    /\ EncConcCalled(other.op, <<>>, other)
    /\ encConcFrame

EncConcSetRedundancyLevel ==
    \E redundancy_percentage \in RedundancyLevels :
        /\ calls < MaxEncCalls
        /\ enc_call.pc # "crashed"
        /\ OtherCalls([op |-> "set_redundancy_level",
                       redundancy_percentage |-> redundancy_percentage])

EncConcUpdateConfig ==
    \E config \in EncoderConfigs :
        /\ calls < MaxEncCalls
        /\ enc_call.pc # "crashed"
        /\ OtherCalls([op |-> "update_config", config |-> config])

EncConcReset ==
    /\ calls < MaxEncCalls
    /\ enc_call.pc # "crashed"
    /\ OtherCalls([op |-> "reset"])

NextEncConc ==
    \/ EncConcBegin
    \/ EncConcUpdatePacketWindow
    \/ EncConcCheckHistory
    \/ EncConcCalculateCount
    \/ EncConcGenerate
    \/ EncConcUpdateStats
    \/ EncConcReturn
    \/ EncConcSetRedundancyLevel
    \/ EncConcUpdateConfig
    \/ EncConcReset

SpecEncConc == InitEncConc /\ [][NextEncConc]_vars

(***************************************************************************)
(* AudioPipeline (src/pc-receiver/src/audio/audio_pipeline.cpp).           *)
(* pipeline_ is the object: its members, the mock sink's running_ flag     *)
(* (audio_output_), and three histories: popped, the sequence_ids          *)
(* get_next_packet released; written, the frames the sink accepted, each   *)
(* with its place in popped; was_stopped, whether a stop() has taken the   *)
(* pipeline out of RUNNING.  A decoded frame carries its place in popped   *)
(* through the decoded-audio queue (the mock decoder returns silence for   *)
(* every valid packet, so the samples do not identify it).                 *)
(***************************************************************************)
\* audio_pipeline.h:132-138
SUPPORTED_SAMPLE_RATE == 48000
\* AudioPipeline::MIN_BUFFER_SIZE / MAX_BUFFER_SIZE
MIN_OUTPUT_BUFFER_SIZE == 64
MAX_OUTPUT_BUFFER_SIZE == 512
MIN_JITTER_CAPACITY == 1
MAX_JITTER_CAPACITY == 20
\* the mock decoder takes fewer bytes than this for an invalid packet
MIN_OPUS_PACKET == 8
\* 2.5 ms per buffered packet, in microseconds
FRAME_DURATION_US == 2500

\* AudioPipeline::AudioPipeline: the parameter checks of lines 30-54
ValidPipelineParams(sample_rate, channels, buffer_size, jitter_buffer_capacity) ==
    /\ sample_rate = SUPPORTED_SAMPLE_RATE
    /\ channels = 1 \/ channels = 2
    /\ buffer_size >= MIN_OUTPUT_BUFFER_SIZE /\ buffer_size <= MAX_OUTPUT_BUFFER_SIZE
    /\ jitter_buffer_capacity >= MIN_JITTER_CAPACITY
    /\ jitter_buffer_capacity <= MAX_JITTER_CAPACITY

\* AudioPipeline::AudioPipeline; processing_thread_ is 0 when it is not
\* joinable, else the worker it stands for; the components exist only when the
\* parameters were accepted
AudioPipeline_new(sample_rate, channels, buffer_size, jitter_buffer_capacity) ==
    LET valid == ValidPipelineParams(sample_rate, channels, buffer_size,
                                     jitter_buffer_capacity)
    IN [constructed |-> TRUE,
        sample_rate_ |-> sample_rate,
        channels_ |-> channels,
        buffer_size_ |-> buffer_size,
        jitter_buffer_capacity_ |-> jitter_buffer_capacity,
        initialized_ |-> valid,
        running_ |-> FALSE,
        processing_thread_ |-> 0,
        jitter_buffer_ |-> JB_new(IF valid THEN jitter_buffer_capacity ELSE 0),
        audio_output_ |-> [running_ |-> FALSE],
        packet_queue_ |-> <<>>,
        decoded_audio_queue_ |-> <<>>,
        packets_processed_ |-> 0,
        frames_decoded_ |-> 0,
        frames_output_ |-> 0,
        decode_errors_ |-> 0,
        output_underruns_ |-> 0,
        jitter_buffer_latency_us_ |-> 0,
        popped |-> <<>>,
        written |-> <<>>,
        was_stopped |-> FALSE]

\* OpusDecoder::decode with the mock codec: nothing for an empty, a short or a
\* marked packet, else one frame of silence
decode(p, encoded_data) ==
    IF encoded_data.size = 0 THEN [size |-> 0, pcm |-> "none"]
    ELSE IF encoded_data.size < MIN_OPUS_PACKET \/ encoded_data.lead = "01020304"
    THEN [size |-> 0, pcm |-> "none"]
    ELSE [size |-> FrameSize * p.channels_, pcm |-> "silence"]

\* AudioOutput::start: the sink afterwards and the value returned
AudioOutput_start(audio_output) ==
    IF audio_output.running_ THEN [audio_output |-> audio_output, result |-> FALSE]
    ELSE [audio_output |-> [audio_output EXCEPT !.running_ = TRUE], result |-> TRUE]

\* AudioOutput::stop
AudioOutput_stop(audio_output) == [audio_output EXCEPT !.running_ = FALSE]

\* AudioOutput::write_audio of a buffer of size samples
write_audio(p, size) ==
    p.audio_output_.running_ /\ size = p.buffer_size_ * p.channels_

\* process_audio_packet rejecting with a decode error when the pipeline is
\* not running
process_audio_packet_check_counting(p, encoded_data) ==
    IF ~p.initialized_ \/ ~p.running_ \/ encoded_data.size = 0
    THEN [pipeline |-> [p EXCEPT !.decode_errors_ = @ + 1], accepted |-> FALSE]
    ELSE [pipeline |-> p, accepted |-> TRUE]

\* AudioPipeline::process_audio_packet, lines 166-174: the two rejections
process_audio_packet_check(p, encoded_data) ==
    IF ~p.initialized_ \/ ~p.running_ THEN [pipeline |-> p, accepted |-> FALSE]
    ELSE IF encoded_data.size = 0
    THEN [pipeline |-> [p EXCEPT !.decode_errors_ = @ + 1], accepted |-> FALSE]
    ELSE [pipeline |-> p, accepted |-> TRUE]

\* AudioPipeline::process_audio_packet, lines 176-180: the entry is queued
process_audio_packet_enqueue(p, sequence_id, timestamp, encoded_data) ==
    [p EXCEPT !.packet_queue_ =
        Append(@, [sequence_id |-> sequence_id, timestamp |-> timestamp,
                   encoded_data |-> encoded_data])]

\* AudioPipeline::process_jitter_buffer: the whole ingress queue is decoded
\* and offered to the reorder buffer; the pipeline afterwards and the value
\* returned
RECURSIVE process_jitter_buffer_from(_, _)
process_jitter_buffer_from(p, processed) ==
    IF p.packet_queue_ = <<>> THEN [pipeline |-> p, processed |-> processed]
    ELSE LET front == Head(p.packet_queue_)
             p1 == [p EXCEPT !.packet_queue_ = Tail(@)]
             decoded_audio == decode(p, front.encoded_data)
             added == JB_add_packet(p.jitter_buffer_, front.sequence_id,
                                    front.timestamp, decoded_audio)
         IN IF decoded_audio.size # 0
            THEN IF added.result
                 THEN process_jitter_buffer_from(
                          [p1 EXCEPT !.jitter_buffer_ = added.jb,
                                     !.frames_decoded_ =
                                         @ + decoded_audio.size \div p.channels_],
                          TRUE)
                 ELSE process_jitter_buffer_from(
                          [p1 EXCEPT !.jitter_buffer_ = added.jb], processed)
            ELSE process_jitter_buffer_from(
                     [p1 EXCEPT !.decode_errors_ = @ + 1], processed)

process_jitter_buffer(p) == process_jitter_buffer_from(p, FALSE)

\* process_decoder that drops the packet it took from the reorder buffer
process_decoder_dropping(p) ==
    LET packet == JB_get_next_packet(p.jitter_buffer_)
    IN IF ~packet.has
       THEN [pipeline |-> [p EXCEPT !.jitter_buffer_ = packet.jb], processed |-> FALSE]
       ELSE [pipeline |->
                 [p EXCEPT !.jitter_buffer_ = packet.jb,
                           !.popped = Append(@, packet.packet.sequence_id)],
             processed |-> TRUE]

\* AudioPipeline::process_decoder: one packet leaves the reorder buffer for
\* the decoded-audio queue
process_decoder(p) ==
    LET packet == JB_get_next_packet(p.jitter_buffer_)
    IN IF ~packet.has
       THEN [pipeline |-> [p EXCEPT !.jitter_buffer_ = packet.jb], processed |-> FALSE]
       ELSE [pipeline |->
                 [p EXCEPT !.jitter_buffer_ = packet.jb,
                           !.popped = Append(@, packet.packet.sequence_id),
                           !.decoded_audio_queue_ =
                               Append(@, [audio_data |-> packet.packet.audio_data,
                                          index |-> Len(p.popped) + 1])],
             processed |-> TRUE]

\* process_audio_output that leaves the frame it wrote at the front of the queue
process_audio_output_without_pop(p) ==
    IF p.decoded_audio_queue_ = <<>> THEN [pipeline |-> p, processed |-> FALSE]
    ELSE LET front == Head(p.decoded_audio_queue_)
         IN IF write_audio(p, p.buffer_size_ * p.channels_)
            THEN [pipeline |->
                      [p EXCEPT !.frames_output_ = @ + p.buffer_size_,
                                !.written = Append(@, front.index)],
                  processed |-> TRUE]
            ELSE [pipeline |-> [p EXCEPT !.output_underruns_ = @ + 1],
                  processed |-> FALSE]

\* AudioPipeline::process_audio_output: the front frame is popped, resized to
\* buffer_size_ * channels_ samples and written to the sink
process_audio_output(p) ==
    IF p.decoded_audio_queue_ = <<>> THEN [pipeline |-> p, processed |-> FALSE]
    ELSE LET front == Head(p.decoded_audio_queue_)
             p1 == [p EXCEPT !.decoded_audio_queue_ = Tail(@)]
         IN IF write_audio(p, p.buffer_size_ * p.channels_)
            THEN [pipeline |->
                      [p1 EXCEPT !.frames_output_ = @ + p.buffer_size_,
                                 !.written = Append(@, front.index)],
                  processed |-> TRUE]
            ELSE [pipeline |-> [p1 EXCEPT !.output_underruns_ = @ + 1],
                  processed |-> FALSE]

\* AudioPipeline::update_latency_measurements
update_latency_measurements(p) ==
    [p EXCEPT !.jitter_buffer_latency_us_ = JB_get_size(p.jitter_buffer_) * FRAME_DURATION_US]

(***************************************************************************)
(* The AudioPipeline and the threads around it.  threads_.controller are   *)
(* the threads that call start() and stop(), threads_.producer the thread  *)
(* that calls process_audio_packet, threads_.workers the threads start()   *)
(* created ("unborn" before, "exited" after processing_thread returned).   *)
(* Each action is one access of a thread to the members the threads share; *)
(* ret is the last call that returned and calls the number of calls that   *)
(* returned.  threads_.aborted: std::terminate was called.                 *)
(* threads_.unheard: a notify_all met a live worker that was not waiting.  *)
(* A worker's locks_ are the mutexes whose lock_guard is alive on its       *)
(* stack, in the order it took them; a section that no call out of the      *)
(* class interrupts takes and releases its mutex within one action.         *)
(* threads_.lock_order holds the pairs <<held, acquired>>: some thread      *)
(* locked `acquired` while it held `held`.                                  *)
(***************************************************************************)
IdleController == [pc |-> "idle", op |-> "none"]
IdleProducer == [pc |-> "idle", sequence_id |-> 0, timestamp |-> 0,
                 encoded_data |-> [size |-> 0, lead |-> ""]]
UnbornWorker == [pc |-> "unborn", processed_something |-> FALSE, stale_waits |-> 0,
                 locks_ |-> <<>>]

Threads_new(controllers) ==
    [constructed |-> TRUE,
     controller |-> [c \in controllers |-> IdleController],
     producer |-> IdleProducer,
     workers |-> [w \in 1..MaxWorkers |-> UnbornWorker],
     spawned |-> 0,
     begun |-> 0,
     offered |-> 0,
     aborted |-> FALSE,
     unheard |-> FALSE,
     lock_order |-> {}]

\* constructor arguments: those of the tests with a small reorder buffer, and
\* one rejected for each check (the reorder buffer of the model is stereo)
PipelineParams ==
    { <<48000, 2, 128, 2>>, <<44100, 2, 128, 2>>, <<48000, 3, 128, 2>>,
      <<48000, 2, 32, 2>>, <<48000, 2, 128, 25>> }
\* what process_audio_packet is given
PipeSequenceIds == 1..MaxPackets
PIPE_TIMESTAMP == 1000
EncodedInputs ==
    { [size |-> 0, lead |-> ""], [size |-> 1, lead |-> "ff"], [size |-> 64, lead |-> "opus"] }

Live(w) == threads_.workers[w].pc \notin {"unborn", "exited"}
Waiting(w) == threads_.workers[w].pc = "waiting"

\* the mutexes worker w holds, and a mutex no thread but w holds
HeldBy(w) == {threads_.workers[w].locks_[i] : i \in 1..Len(threads_.workers[w].locks_)}
FreeFor(mutex, w) == \A v \in DOMAIN threads_.workers \ {w} : mutex \notin HeldBy(v)
\* std::lock_guard on `mutex` by a thread that holds `held`
Acquired(held, mutex) == {<<h, mutex>> : h \in held}

pipeFrame ==
    UNCHANGED <<jitter_buffer_, config_, stats_, capacity_history_, network_monitor_,
                released, concVars, fecVars, fec_encoder_, link, sent, pktVars,
                monitor_, enc_call>>

PipeOthersIdle ==
    /\ jitter_buffer_ = JB_new(ValidateConfig(DefaultConfig).default_capacity)
    /\ config_ = ValidateConfig(DefaultConfig)
    /\ stats_ = InitialStats(ValidateConfig(DefaultConfig))
    /\ capacity_history_ = <<>>
    /\ network_monitor_ = [attached |-> FALSE, metrics |-> Metrics(0, 0, 0)]
    /\ released = <<>>
    /\ ConcIdle
    /\ FecIdle
    /\ fec_encoder_ = FECEncoder_new(FECConfig(20, 5, 10))
    /\ link = <<>>
    /\ sent = EmptyMap
    /\ PktIdle
    /\ MonIdle
    /\ enc_call = NoEncCall

\* AudioPipeline::AudioPipeline(sample_rate, channels, buffer_size, capacity),
\* one thread in control
InitPipe ==
    /\ \E a \in PipelineParams : pipeline_ = AudioPipeline_new(a[1], a[2], a[3], a[4])
    /\ threads_ = Threads_new({"A"})
    /\ ret = [op |-> "constructor", result |-> pipeline_.initialized_,
              packet |-> NullPacket, arg |-> [thread |-> "A"]]
    /\ calls = 0
    /\ PipeOthersIdle

\* a call returns
PipeReturns(op, result, arg) ==
    /\ calls' = calls + 1
    /\ ret' = [op |-> op, result |-> result, packet |-> NullPacket, arg |-> arg]

\* ---- start() ----
\* line 108: if (!initialized_ || running_.load()) return false
PipeStart ==
    \E c \in DOMAIN threads_.controller :
        /\ ~threads_.aborted
        /\ threads_.controller[c].pc = "idle"
        /\ threads_.begun < MaxCtlCalls
        /\ IF ~pipeline_.initialized_ \/ pipeline_.running_
           THEN /\ threads_' = [threads_ EXCEPT !.begun = @ + 1]
                /\ PipeReturns("start", FALSE, [thread |-> c])
           ELSE /\ threads_' = [threads_ EXCEPT
                                   !.begun = @ + 1,
                                   !.controller[c] = [pc |-> "audio_output_start",
                                                      op |-> "start"]]
                /\ UNCHANGED <<ret, calls>>
        /\ UNCHANGED pipeline_
        /\ pipeFrame

\* line 113: if (!audio_output_->start()) return false
PipeStartAudioOutput ==
    \E c \in DOMAIN threads_.controller :
        /\ ~threads_.aborted
        /\ threads_.controller[c].pc = "audio_output_start"
        /\ LET r == AudioOutput_start(pipeline_.audio_output_)
           IN IF r.result
              THEN /\ pipeline_' = [pipeline_ EXCEPT !.audio_output_ = r.audio_output]
                   /\ threads_' = [threads_ EXCEPT !.controller[c].pc = "running_store"]
                   /\ UNCHANGED <<ret, calls>>
              ELSE /\ threads_' = [threads_ EXCEPT !.controller[c] = IdleController]
                   /\ PipeReturns("start", FALSE, [thread |-> c])
                   /\ UNCHANGED pipeline_
        /\ pipeFrame

\* line 119: running_.store(true)
PipeStartStore ==
    \E c \in DOMAIN threads_.controller :
        /\ ~threads_.aborted
        /\ threads_.controller[c].pc = "running_store"
        /\ pipeline_' = [pipeline_ EXCEPT !.running_ = TRUE]
        /\ threads_' = [threads_ EXCEPT !.controller[c].pc = "thread_create"]
        /\ UNCHANGED <<ret, calls>>
        /\ pipeFrame

\* line 120, right-hand side: std::thread(&AudioPipeline::processing_thread, this)
PipeStartCreateThread ==
    \E c \in DOMAIN threads_.controller :
        /\ ~threads_.aborted
        /\ threads_.controller[c].pc = "thread_create"
        /\ threads_.spawned < MaxWorkers
        /\ threads_' = [threads_ EXCEPT
                           !.spawned = @ + 1,
                           !.workers[threads_.spawned + 1].pc = "loop",
                           !.controller[c].pc = "thread_assign"]
        /\ UNCHANGED <<pipeline_, ret, calls>>
        /\ pipeFrame

\* line 120, the move assignment to processing_thread_ (std::terminate when
\* processing_thread_ is joinable), and return true
PipeStartAssignThread ==
    \E c \in DOMAIN threads_.controller :
        /\ ~threads_.aborted
        /\ threads_.controller[c].pc = "thread_assign"
        /\ IF pipeline_.processing_thread_ # 0
           THEN /\ threads_' = [threads_ EXCEPT !.aborted = TRUE]
                /\ UNCHANGED <<pipeline_, ret, calls>>
           ELSE /\ pipeline_' = [pipeline_ EXCEPT !.processing_thread_ = threads_.spawned]
                /\ threads_' = [threads_ EXCEPT !.controller[c] = IdleController]
                /\ PipeReturns("start", TRUE, [thread |-> c])
        /\ pipeFrame

\* ---- stop() ----
\* line 127: if (!running_.load()) return
PipeStop ==
    \E c \in DOMAIN threads_.controller :
        /\ ~threads_.aborted
        /\ threads_.controller[c].pc = "idle"
        /\ threads_.begun < MaxCtlCalls
        /\ IF ~pipeline_.running_
           THEN /\ threads_' = [threads_ EXCEPT !.begun = @ + 1]
                /\ PipeReturns("stop", TRUE, [thread |-> c])
           ELSE /\ threads_' = [threads_ EXCEPT
                                   !.begun = @ + 1,
                                   !.controller[c] = [pc |-> "running_store_false",
                                                      op |-> "stop"]]
                /\ UNCHANGED <<ret, calls>>
        /\ UNCHANGED pipeline_
        /\ pipeFrame

\* line 134: running_.store(false)
PipeStopStore ==
    \E c \in DOMAIN threads_.controller :
        /\ ~threads_.aborted
        /\ threads_.controller[c].pc = "running_store_false"
        /\ pipeline_' = [pipeline_ EXCEPT !.running_ = FALSE, !.was_stopped = TRUE]
        /\ threads_' = [threads_ EXCEPT !.controller[c].pc = "notify_all"]
        /\ UNCHANGED <<ret, calls>>
        /\ pipeFrame

\* line 135: pipeline_cv_.notify_all()
PipeStopNotifyAll ==
    \E c \in DOMAIN threads_.controller :
        /\ ~threads_.aborted
        /\ threads_.controller[c].pc = "notify_all"
        /\ threads_' = [threads_ EXCEPT
               !.controller[c].pc = "join",
               !.workers = [w \in DOMAIN @ |->
                               IF Waiting(w) THEN [@[w] EXCEPT !.pc = "loop"] ELSE @[w]],
               !.unheard = @ \/ (\E w \in DOMAIN threads_.workers : Live(w) /\ ~Waiting(w))]
        /\ UNCHANGED <<pipeline_, ret, calls>>
        /\ pipeFrame

\* lines 138-140: if (processing_thread_.joinable()) processing_thread_.join()
PipeStopJoin ==
    \E c \in DOMAIN threads_.controller :
        /\ ~threads_.aborted
        /\ threads_.controller[c].pc = "join"
        /\ pipeline_.processing_thread_ # 0
               => threads_.workers[pipeline_.processing_thread_].pc = "exited"
        /\ pipeline_' = [pipeline_ EXCEPT !.processing_thread_ = 0]
        /\ threads_' = [threads_ EXCEPT !.controller[c].pc = "audio_output_stop"]
        /\ UNCHANGED <<ret, calls>>
        /\ pipeFrame

\* line 144: audio_output_->stop()
PipeStopAudioOutput ==
    \E c \in DOMAIN threads_.controller :
        /\ ~threads_.aborted
        /\ threads_.controller[c].pc = "audio_output_stop"
        /\ pipeline_' = [pipeline_ EXCEPT
                            !.audio_output_ = AudioOutput_stop(pipeline_.audio_output_)]
        /\ threads_' = [threads_ EXCEPT !.controller[c].pc = "clear_packet_queue"]
        /\ UNCHANGED <<ret, calls>>
        /\ pipeFrame

\* lines 148-153: the ingress queue is emptied
PipeStopClearPacketQueue ==
    \E c \in DOMAIN threads_.controller :
        /\ ~threads_.aborted
        /\ threads_.controller[c].pc = "clear_packet_queue"
        /\ pipeline_' = [pipeline_ EXCEPT !.packet_queue_ = <<>>]
        /\ threads_' = [threads_ EXCEPT !.controller[c].pc = "clear_decoded_audio_queue"]
        /\ UNCHANGED <<ret, calls>>
        /\ pipeFrame

\* lines 155-163: the decoded-audio queue is emptied; stop() returns
PipeStopClearDecodedQueue ==
    \E c \in DOMAIN threads_.controller :
        /\ ~threads_.aborted
        /\ threads_.controller[c].pc = "clear_decoded_audio_queue"
        /\ FreeFor("decoded_audio_mutex_", 0)
        /\ pipeline_' = [pipeline_ EXCEPT !.decoded_audio_queue_ = <<>>]
        /\ threads_' = [threads_ EXCEPT !.controller[c] = IdleController]
        /\ PipeReturns("stop", TRUE, [thread |-> c])
        /\ pipeFrame

\* ---- process_audio_packet(sequence_id, timestamp, encoded_data) ----
\* lines 166-174
PipeProcessAudioPacket ==
    \E sequence_id \in PipeSequenceIds, encoded_data \in EncodedInputs :
        /\ ~threads_.aborted
        /\ threads_.producer.pc = "idle"
        /\ threads_.offered < MaxPackets
        /\ LET r == process_audio_packet_check(pipeline_, encoded_data)
           IN /\ pipeline_' = r.pipeline
              /\ IF r.accepted
                 THEN /\ threads_' = [threads_ EXCEPT
                             !.offered = @ + 1,
                             !.producer = [pc |-> "enqueue", sequence_id |-> sequence_id,
                                           timestamp |-> PIPE_TIMESTAMP,
                                           encoded_data |-> encoded_data]]
                      /\ UNCHANGED <<ret, calls>>
                 ELSE /\ threads_' = [threads_ EXCEPT !.offered = @ + 1]
                      /\ PipeReturns("process_audio_packet", FALSE,
                                     [thread |-> "P", sequence_id |-> sequence_id,
                                      encoded_data |-> encoded_data])
        /\ pipeFrame

\* lines 176-180
PipeEnqueue ==
    /\ ~threads_.aborted
    /\ threads_.producer.pc = "enqueue"
    /\ pipeline_' = process_audio_packet_enqueue(pipeline_, threads_.producer.sequence_id,
                                                 threads_.producer.timestamp,
                                                 threads_.producer.encoded_data)
    /\ threads_' = [threads_ EXCEPT !.producer.pc = "notify_one"]
    /\ UNCHANGED <<ret, calls>>
    /\ pipeFrame

\* lines 183-186: pipeline_cv_.notify_one(), packets_processed_++, return true
PipeNotifyOne ==
    /\ ~threads_.aborted
    /\ threads_.producer.pc = "notify_one"
    /\ pipeline_' = [pipeline_ EXCEPT !.packets_processed_ = @ + 1]
    /\ \E woken \in IF \E w \in DOMAIN threads_.workers : Waiting(w)
                    THEN {w \in DOMAIN threads_.workers : Waiting(w)} ELSE {0} :
           threads_' = [threads_ EXCEPT
               !.producer = IdleProducer,
               !.workers = [w \in DOMAIN @ |->
                               IF w = woken THEN [@[w] EXCEPT !.pc = "loop"] ELSE @[w]]]
    /\ PipeReturns("process_audio_packet", TRUE,
                   [thread |-> "P", sequence_id |-> threads_.producer.sequence_id,
                    encoded_data |-> threads_.producer.encoded_data])
    /\ pipeFrame

\* ---- processing_thread() ----
\* line 192: while (running_.load())
PipeWorkerLoop ==
    \E w \in DOMAIN threads_.workers :
        /\ ~threads_.aborted
        /\ threads_.workers[w].pc = "loop"
        /\ threads_' = [threads_ EXCEPT
               !.workers[w] = IF pipeline_.running_
                              THEN [@ EXCEPT !.pc = "process_jitter_buffer",
                                             !.processed_something = FALSE]
                              ELSE [@ EXCEPT !.pc = "exited"]]
        /\ UNCHANGED <<pipeline_, ret, calls>>
        /\ pipeFrame

\* what a stage of the loop leaves: the pipeline, processed_something, the
\* mutexes still locked and the lock pairs the stage added
WorkerStage(w, r, next, locks, pairs) ==
    /\ pipeline_' = r.pipeline
    /\ threads_' = [threads_ EXCEPT
           !.workers[w].pc = next,
           !.workers[w].processed_something = @ \/ r.processed,
           !.workers[w].locks_ = locks,
           !.lock_order = @ \cup pairs]
    /\ UNCHANGED <<ret, calls>>
    /\ pipeFrame

\* line 198: process_jitter_buffer holds packet_queue_mutex_ (line 227) from
\* its first line to its return; jitter_buffer_->add_packet (line 238) locks
\* JitterBuffer::buffer_mutex_ for every packet that decoded
PipeWorkerJitterBuffer ==
    \E w \in DOMAIN threads_.workers :
        /\ ~threads_.aborted
        /\ threads_.workers[w].pc = "process_jitter_buffer"
        /\ WorkerStage(w, process_jitter_buffer(pipeline_), "process_decoder",
                       threads_.workers[w].locks_,
                       IF \E i \in 1..Len(pipeline_.packet_queue_) :
                              decode(pipeline_, pipeline_.packet_queue_[i].encoded_data).size # 0
                       THEN Acquired(HeldBy(w) \cup {"packet_queue_mutex_"}, "buffer_mutex_")
                       ELSE {})

\* line 201: get_next_packet locks buffer_mutex_ and releases it; the push is
\* under decoded_audio_mutex_ (lines 258-261)
PipeWorkerDecoder ==
    \E w \in DOMAIN threads_.workers :
        /\ ~threads_.aborted
        /\ threads_.workers[w].pc = "process_decoder"
        /\ JB_get_next_packet(pipeline_.jitter_buffer_).has
               => FreeFor("decoded_audio_mutex_", w)
        /\ WorkerStage(w, process_decoder(pipeline_), "process_audio_output",
                       threads_.workers[w].locks_,
                       Acquired(HeldBy(w), "buffer_mutex_")
                           \cup IF JB_get_next_packet(pipeline_.jitter_buffer_).has
                                THEN Acquired(HeldBy(w), "decoded_audio_mutex_") ELSE {})

\* line 204, process_audio_output up to the call of the sink: the lock_guard
\* of line 267 on decoded_audio_mutex_, released by the return of line 270
\* when the queue is empty and else alive until the function returns
PipeWorkerAudioOutput ==
    \E w \in DOMAIN threads_.workers :
        /\ ~threads_.aborted
        /\ threads_.workers[w].pc = "process_audio_output"
        /\ FreeFor("decoded_audio_mutex_", w)
        /\ IF pipeline_.decoded_audio_queue_ = <<>>
           THEN WorkerStage(w, process_audio_output(pipeline_),
                            "update_latency_measurements",
                            threads_.workers[w].locks_,
                            Acquired(HeldBy(w), "decoded_audio_mutex_"))
           ELSE WorkerStage(w, [pipeline |-> pipeline_, processed |-> FALSE],
                            "write_audio",
                            Append(threads_.workers[w].locks_, "decoded_audio_mutex_"),
                            Acquired(HeldBy(w), "decoded_audio_mutex_"))

\* lines 273-291: the front frame leaves the queue and audio_output_->write_audio
\* is called (line 285); the return releases decoded_audio_mutex_
PipeWorkerWriteAudio ==
    \E w \in DOMAIN threads_.workers :
        /\ ~threads_.aborted
        /\ threads_.workers[w].pc = "write_audio"
        /\ WorkerStage(w, process_audio_output(pipeline_),
                       "update_latency_measurements",
                       SelectSeq(threads_.workers[w].locks_,
                                 LAMBDA m : m # "decoded_audio_mutex_"),
                       {})

\* line 207, update_latency_measurements: the lock_guard of line 295 on
\* latency_mutex_
PipeWorkerLatency ==
    \E w \in DOMAIN threads_.workers :
        /\ ~threads_.aborted
        /\ threads_.workers[w].pc = "update_latency_measurements"
        /\ FreeFor("latency_mutex_", w)
        /\ WorkerStage(w, [pipeline |-> pipeline_, processed |-> FALSE], "get_size",
                       Append(threads_.workers[w].locks_, "latency_mutex_"),
                       Acquired(HeldBy(w), "latency_mutex_"))

\* lines 298-306: jitter_buffer_->get_size() locks buffer_mutex_ (line 302),
\* the snapshot is written and the return releases latency_mutex_; lines
\* 209-217: back to the loop test or on to the wait
PipeWorkerGetSize ==
    \E w \in DOMAIN threads_.workers :
        /\ ~threads_.aborted
        /\ threads_.workers[w].pc = "get_size"
        /\ pipeline_' = update_latency_measurements(pipeline_)
        /\ threads_' = [threads_ EXCEPT
               !.workers[w].pc = IF threads_.workers[w].processed_something
                                 THEN "loop" ELSE "wait_for",
               !.workers[w].locks_ = SelectSeq(@, LAMBDA m : m # "latency_mutex_"),
               !.lock_order = @ \cup Acquired(HeldBy(w), "buffer_mutex_")]
        /\ UNCHANGED <<ret, calls>>
        /\ pipeFrame

\* line 218: the thread begins to wait on pipeline_cv_
PipeWorkerWait ==
    \E w \in DOMAIN threads_.workers :
        /\ ~threads_.aborted
        /\ threads_.workers[w].pc = "wait_for"
        /\ threads_' = [threads_ EXCEPT
               !.workers[w].pc = "waiting",
               !.workers[w].stale_waits =
                   IF pipeline_.running_ THEN 0 ELSE Min(@ + 1, 2)]
        /\ UNCHANGED <<pipeline_, ret, calls>>
        /\ pipeFrame

\* wait_for never returning for lack of a notification
wait_for_untimed(w) == FALSE

\* line 218: PROCESSING_THREAD_SLEEP_US have passed
wait_for_timed_out(w) == Waiting(w)

PipeWorkerTimeout ==
    \E w \in DOMAIN threads_.workers :
        /\ ~threads_.aborted
        /\ wait_for_timed_out(w)
        /\ threads_' = [threads_ EXCEPT !.workers[w].pc = "loop"]
        /\ UNCHANGED <<pipeline_, ret, calls>>
        /\ pipeFrame

PipeControl ==
    \/ PipeStart
    \/ PipeStartAudioOutput
    \/ PipeStartStore
    \/ PipeStartCreateThread
    \/ PipeStartAssignThread
    \/ PipeStop
    \/ PipeStopStore
    \/ PipeStopNotifyAll
    \/ PipeStopJoin
    \/ PipeStopAudioOutput
    \/ PipeStopClearPacketQueue
    \/ PipeStopClearDecodedQueue

PipeProduce ==
    \/ PipeProcessAudioPacket
    \/ PipeEnqueue
    \/ PipeNotifyOne

\* the steps of a worker but for the call of the sink
PipeWorkButWrite ==
    \/ PipeWorkerLoop
    \/ PipeWorkerJitterBuffer
    \/ PipeWorkerDecoder
    \/ PipeWorkerAudioOutput
    \/ PipeWorkerLatency
    \/ PipeWorkerGetSize
    \/ PipeWorkerWait
    \/ PipeWorkerTimeout

PipeWork ==
    \/ PipeWorkButWrite
    \/ PipeWorkerWriteAudio

NextPipe ==
    \/ PipeControl
    \/ PipeProduce
    \/ PipeWork

SpecPipe == InitPipe /\ [][NextPipe]_vars

\* the steps of stop() after it found the pipeline running
PipeStopping ==
    \/ PipeStopStore
    \/ PipeStopNotifyAll
    \/ PipeStopJoin
    \/ PipeStopAudioOutput
    \/ PipeStopClearPacketQueue
    \/ PipeStopClearDecodedQueue

\* the threads are scheduled fairly: a worker that can take a step takes one,
\* and so does a thread inside stop()
FairSpecPipe == SpecPipe /\ WF_vars(PipeStopping) /\ WF_vars(PipeWork)

(***************************************************************************)
(* The same pipeline with start() and stop() called from two threads and   *)
(* no packets offered: the decoded-audio queue stays empty and no worker   *)
(* reaches the call of the sink.                                           *)
(***************************************************************************)
InitPipeCtl ==
    /\ pipeline_ = AudioPipeline_new(48000, 2, 128, 2)
    /\ threads_ = Threads_new({"A", "B"})
    /\ ret = [op |-> "constructor", result |-> TRUE,
              packet |-> NullPacket, arg |-> [thread |-> "A"]]
    /\ calls = 0
    /\ PipeOthersIdle

NextPipeCtl ==
    \/ PipeControl
    \/ PipeWorkButWrite

SpecPipeCtl == InitPipeCtl /\ [][NextPipeCtl]_vars

(***************************************************************************)
(* An encoder, a lossy FIFO link and a decoder.  The sender encodes the    *)
(* sequence ids 1, 2, ... in order; the packets of one encode_packet call  *)
(* are either all lost or all put on the link, and the receiver processes  *)
(* the packets on the link one at a time, in order.  sent[s] records the   *)
(* payload of call s, whether its packets were lost and the times at which *)
(* the first and the last of them were processed (-1: none yet).           *)
(***************************************************************************)
linkFrame == othersFrame

InitLink ==
    /\ \E config \in LinkConfigs : fec_encoder_ = FECEncoder_new(config)
    /\ \E distance \in LinkRecoveryDistances : fec_decoder_ = FECDecoder_new(distance, 20)
    /\ link = <<>>
    /\ sent = EmptyMap
    /\ now_ms = 0
    /\ current_max = 0
    /\ OthersIdle
    /\ ret = [op |-> "constructor", result |-> <<>>, packet |-> NullPacket, arg |-> 0]
    /\ calls = 0

\* the sender calls encode_packet for the next sequence id
LinkEncode ==
    \E audio_data \in FecPayloads, lost \in BOOLEAN :
        LET sequence_id == Cardinality(DOMAIN sent) + 1
            r == encode_packet(fec_encoder_, sequence_id, audio_data, now_ms)
        IN /\ sequence_id <= MaxSid
           /\ fec_encoder_' = r.encoder
           /\ link' = IF lost THEN link ELSE link \o r.result
           /\ sent' = MapPut(sent, sequence_id,
                             [payload |-> audio_data, lost |-> lost,
                              first_processed |-> -1, last_processed |-> -1])
           /\ ret' = [op |-> "encode_packet", result |-> r.result, packet |-> NullPacket,
                      arg |-> [sequence_id |-> sequence_id, audio_data |-> audio_data]]
           /\ calls' = calls + 1
           /\ UNCHANGED <<fec_decoder_, now_ms, current_max>>
           /\ linkFrame

\* the receiver hands the next packet of the link to process_packet
LinkDeliver ==
    /\ link # <<>>
    /\ LET packet_data == Head(link)
           r == process_packet(fec_decoder_, packet_data, now_ms)
       IN /\ fec_decoder_' = r.decoder
          /\ current_max' = Max(current_max, packet_data.sequence_id)
          /\ sent' = [sent EXCEPT
                         ![packet_data.sequence_id].first_processed =
                             IF @ = -1 THEN now_ms ELSE @,
                         ![packet_data.sequence_id].last_processed = now_ms]
          /\ ret' = [op |-> "process_packet", result |-> r.result, packet |-> NullPacket,
                     arg |-> packet_data]
    /\ link' = Tail(link)
    /\ calls' = calls + 1
    /\ UNCHANGED <<fec_encoder_, now_ms>>
    /\ linkFrame

\* the receiver asks for a sequence id the sender has encoded
LinkRecover ==
    \E sequence_id \in DOMAIN sent :
        LET r == recover_packet(fec_decoder_, sequence_id, now_ms)
        IN /\ fec_decoder_.stats_.recovery_attempts < MaxRecoveries
           /\ fec_decoder_' = r.decoder
           /\ ret' = [op |-> "recover_packet", result |-> r.result, packet |-> NullPacket,
                      arg |-> sequence_id]
           /\ calls' = calls + 1
           /\ UNCHANGED <<fec_encoder_, link, sent, now_ms, current_max>>
           /\ linkFrame

\* time passes
LinkAdvance ==
    \E d \in FecTimeSteps :
        /\ now_ms + d <= MaxNowMs
        /\ now_ms' = now_ms + d
        /\ UNCHANGED <<fec_encoder_, fec_decoder_, link, sent, current_max, ret, calls>>
        /\ linkFrame

NextLink ==
    \/ LinkEncode
    \/ LinkDeliver
    \/ LinkRecover
    \/ LinkAdvance

SpecLink == InitLink /\ [][NextLink]_vars

(***************************************************************************)
(* An AudioPacket that is serialized, sent and parsed.  In transit the     *)
(* datagram may lose its last byte.  Only audio_packet, wire and parsed    *)
(* differ from the idle state.                                             *)
(***************************************************************************)
pktFrame ==
    UNCHANGED <<jitter_buffer_, config_, stats_, capacity_history_, network_monitor_,
                released, concVars, fecVars, fec_encoder_, link, sent, monitor_,
                threadVars, ret, calls>>

\* AudioPacket::AudioPacket(seq_id, ts, data)
InitPkt ==
    /\ \E seq_id \in PacketSequenceIds, ts \in PacketTimestamps, data \in PacketPayloads :
           audio_packet = AudioPacket_new(seq_id, ts, data)
    /\ wire = NoWire
    /\ parsed = NotParsed
    /\ jitter_buffer_ = JB_new(ValidateConfig(DefaultConfig).default_capacity)
    /\ config_ = ValidateConfig(DefaultConfig)
    /\ stats_ = InitialStats(ValidateConfig(DefaultConfig))
    /\ capacity_history_ = <<>>
    /\ network_monitor_ = [attached |-> FALSE, metrics |-> Metrics(0, 0, 0)]
    /\ released = <<>>
    /\ ConcIdle
    /\ FecIdle
    /\ fec_encoder_ = FECEncoder_new(FECConfig(20, 5, 10))
    /\ link = <<>>
    /\ sent = EmptyMap
    /\ MonIdle
    /\ ThreadsIdle
    /\ ret = [op |-> "constructor", result |-> <<>>, packet |-> NullPacket, arg |-> 0]
    /\ calls = 0

\* audio_packet.serialize()
PktSerialize ==
    /\ wire = NoWire
    /\ wire' = serialize(audio_packet)
    /\ UNCHANGED <<audio_packet, parsed>>
    /\ pktFrame

\* the last byte of the datagram is cut off on the way
PktTruncate ==
    /\ wire = serialize(audio_packet)
    /\ parsed = NotParsed
    /\ wire' = IF wire.size > PACKET_HEADER_SIZE
               THEN [wire EXCEPT !.size = @ - 1, !.payload.size = @ - 1]
               ELSE [wire EXCEPT !.size = @ - 1, !.header = SubSeq(@, 1, Len(@) - 1)]
    /\ UNCHANGED <<audio_packet, parsed>>
    /\ pktFrame

\* AudioPacket::deserialize(wire.data(), wire.size())
PktDeserialize ==
    /\ wire # NoWire
    /\ parsed = NotParsed
    /\ parsed' = deserialize(wire)
    /\ UNCHANGED <<audio_packet, wire>>
    /\ pktFrame

NextPkt ==
    \/ PktSerialize
    \/ PktTruncate
    \/ PktDeserialize

SpecPkt == InitPkt /\ [][NextPkt]_vars

(***************************************************************************)
(* The NetworkMonitor as a state machine: only monitor_, now_ms, ret and   *)
(* calls change.  ret.result is what the call returned: the NetworkMetrics *)
(* of get_metrics, [size |-> n] for get_recommended_jitter_buffer_size,    *)
(* [quality |-> q] for get_network_quality.                                *)
(***************************************************************************)
MonCalled(op, result, arg) ==
    /\ calls < MaxMonCalls
    /\ calls' = calls + 1
    /\ ret' = [op |-> op, result |-> result, packet |-> NullPacket, arg |-> arg]

monFrame ==
    UNCHANGED <<jitter_buffer_, config_, stats_, capacity_history_, network_monitor_,
                released, concVars, fec_decoder_, current_max, fec_encoder_, link, sent,
                pktVars, threadVars>>

\* NetworkMonitor::NetworkMonitor(window_size, update_interval)
InitMon ==
    /\ monitor_ = NetworkMonitor_new(MonWindowSize, MonUpdateInterval, 0)
    /\ jitter_buffer_ = JB_new(ValidateConfig(DefaultConfig).default_capacity)
    /\ config_ = ValidateConfig(DefaultConfig)
    /\ stats_ = InitialStats(ValidateConfig(DefaultConfig))
    /\ capacity_history_ = <<>>
    /\ network_monitor_ = [attached |-> FALSE, metrics |-> Metrics(0, 0, 0)]
    /\ released = <<>>
    /\ ConcIdle
    /\ FecIdle
    /\ fec_encoder_ = FECEncoder_new(FECConfig(20, 5, 10))
    /\ link = <<>>
    /\ sent = EmptyMap
    /\ PktIdle
    /\ ThreadsIdle
    /\ ret = [op |-> "constructor", result |-> <<>>, packet |-> NullPacket, arg |-> 0]
    /\ calls = 0

MonRecordPacketsSent ==
    \E n \in MonSentBursts :
        /\ monitor_' = record_packets_sent(monitor_, n, MonPacketBytes, now_ms)
        /\ MonCalled("record_packet_sent", <<>>, n)
        /\ UNCHANGED now_ms
        /\ monFrame

MonRecordPacketsReceived ==
    \E n \in MonReceivedBursts :
        /\ monitor_' = record_packets_received(monitor_, n, MonPacketBytes, now_ms)
        /\ MonCalled("record_packet_received", <<>>, n)
        /\ UNCHANGED now_ms
        /\ monFrame

MonRecordRtt ==
    \E rtt_us \in MonRttSamples :
        /\ monitor_' = record_rtt(monitor_, rtt_us, now_ms)
        /\ MonCalled("record_rtt", <<>>, rtt_us)
        /\ UNCHANGED now_ms
        /\ monFrame

MonGetMetrics ==
    LET g == get_metrics(monitor_)
    IN /\ monitor_' = g.monitor
       /\ MonCalled("get_metrics", g.metrics, 0)
       /\ UNCHANGED now_ms
       /\ monFrame

MonGetNetworkQuality ==
    /\ MonCalled("get_network_quality", [quality |-> get_network_quality(monitor_)], 0)
    /\ UNCHANGED <<monitor_, now_ms>>
    /\ monFrame

MonGetRecommended ==
    LET r == NetworkMonitor_get_recommended_jitter_buffer_size(monitor_, MonMinSize, MonMaxSize)
    IN /\ monitor_' = r.monitor
       /\ MonCalled("get_recommended_jitter_buffer_size", [size |-> r.result],
                    [min_size |-> MonMinSize, max_size |-> MonMaxSize])
       /\ UNCHANGED now_ms
       /\ monFrame

MonReset ==
    /\ monitor_' = NetworkMonitor_reset(monitor_, now_ms)
    /\ MonCalled("reset", <<>>, 0)
    /\ UNCHANGED now_ms
    /\ monFrame

\* time passes
MonAdvance ==
    \E d \in FecTimeSteps :
        /\ now_ms + d <= MaxNowMs
        /\ now_ms' = now_ms + d
        /\ UNCHANGED <<monitor_, ret, calls>>
        /\ monFrame

NextMon ==
    \/ MonRecordPacketsSent
    \/ MonRecordPacketsReceived
    \/ MonRecordRtt
    \/ MonGetMetrics
    \/ MonGetNetworkQuality
    \/ MonGetRecommended
    \/ MonReset
    \/ MonAdvance

SpecMon == InitMon /\ [][NextMon]_vars

(***************************************************************************)
(* Two threads on one AdaptiveJitterBuffer.  The worker calls add_packet   *)
(* and get_next_packet, the changer calls set_capacity.  A step is one     *)
(* access to shared memory: a call on the JitterBuffer object (atomic      *)
(* under that object's buffer_mutex_), a read or an assignment of the      *)
(* unique_ptr jitter_buffer_, or a section under adaptive_mutex_.  The     *)
(* assignment of jitter_buffer_ destroys the object it owned; buffer_id    *)
(* tells the objects apart.                                                *)
(***************************************************************************)
ConcCapacities == {3, 6}

concFrame == UNCHANGED <<config_, network_monitor_, released, fecVars, netVars>>

\* AdaptiveJitterBuffer::AdaptiveJitterBuffer(FrameSize, Channels), two threads idle
InitConc ==
    /\ config_ = ValidateConfig(DefaultConfig)
    /\ jitter_buffer_ = JB_new(ValidateConfig(DefaultConfig).default_capacity)
    /\ stats_ = InitialStats(ValidateConfig(DefaultConfig))
    /\ capacity_history_ = <<>>
    /\ network_monitor_ = [attached |-> FALSE, metrics |-> Metrics(0, 0, 0)]
    /\ ret = [op |-> "constructor", result |-> TRUE, packet |-> NullPacket, arg |-> 0]
    /\ released = <<>>
    /\ calls = 0
    /\ ConcIdle
    /\ NetIdle
    /\ FecIdle

\* the worker enters add_packet(sequence_id, ...)
WorkerCallsAdd ==
    \E sequence_id \in SeqIds :
        /\ worker.pc = "idle"
        /\ calls < MaxConcCalls
        /\ calls' = calls + 1
        /\ worker' = [IdleWorker EXCEPT !.pc = "adapt", !.op = "add_packet",
                                        !.sequence_id = sequence_id]
        /\ UNCHANGED <<jitter_buffer_, stats_, capacity_history_, ret,
                       adaptive_mutex_, buffer_id, changer, view>>
        /\ concFrame

\* the worker enters get_next_packet()
WorkerCallsGet ==
    /\ worker.pc = "idle"
    /\ calls < MaxConcCalls
    /\ calls' = calls + 1
    /\ worker' = [IdleWorker EXCEPT !.pc = "load", !.op = "get_next_packet"]
    /\ UNCHANGED <<jitter_buffer_, stats_, capacity_history_, ret,
                   adaptive_mutex_, buffer_id, changer, view>>
    /\ concFrame

\* add_packet: if (should_adapt()) update_adaptation(), which takes
\* adaptive_mutex_ and returns at once without a network monitor
WorkerAdapts ==
    /\ worker.pc = "adapt"
    /\ should_adapt(stats_) => adaptive_mutex_ = "free"
    /\ worker' = [worker EXCEPT !.pc = "load"]
    /\ UNCHANGED <<jitter_buffer_, stats_, capacity_history_, ret, calls,
                   adaptive_mutex_, buffer_id, changer, view>>
    /\ concFrame

\* jitter_buffer_-> : the worker reads the pointer, adaptive_mutex_ not held
WorkerLoadsPointer ==
    /\ worker.pc = "load"
    /\ worker' = [worker EXCEPT !.pc = "call", !.ptr = buffer_id]
    /\ UNCHANGED <<jitter_buffer_, stats_, capacity_history_, ret, calls,
                   adaptive_mutex_, buffer_id, changer, view>>
    /\ concFrame

\* the call on the object the pointer named, while that object is alive
WorkerCallsBuffer ==
    /\ worker.pc = "call"
    /\ worker.ptr = buffer_id
    /\ view' = [live |-> TRUE, held |-> Len(changer.packets) - changer.readded,
                op |-> worker.op]
    /\ IF worker.op = "add_packet"
       THEN LET p == AdaptivePayload(worker.sequence_id)
                r == JB_add_packet(jitter_buffer_, worker.sequence_id,
                                   p.timestamp, p.audio_data)
            IN /\ jitter_buffer_' = r.jb
               /\ worker' = [worker EXCEPT !.pc = "util", !.result = r.result]
       ELSE LET r == JB_get_next_packet(jitter_buffer_)
            IN /\ jitter_buffer_' = r.jb
               /\ worker' = [worker EXCEPT !.pc = "util", !.result = r.has,
                                           !.packet = r.packet]
    /\ UNCHANGED <<stats_, capacity_history_, ret, calls,
                   adaptive_mutex_, buffer_id, changer>>
    /\ concFrame

\* the call on an object that the changer has destroyed meanwhile: undefined
\* behaviour, which may return either value or end the thread
WorkerCallsDestroyedBuffer ==
    /\ worker.pc = "call"
    /\ worker.ptr # buffer_id
    /\ view' = [live |-> FALSE, held |-> Len(changer.packets) - changer.readded,
                op |-> worker.op]
    /\ \E outcome \in {"true", "false", "crash"} :
          worker' = IF outcome = "crash"
                    THEN [worker EXCEPT !.pc = "crashed"]
                    ELSE [worker EXCEPT !.pc = "util", !.result = (outcome = "true")]
    /\ UNCHANGED <<jitter_buffer_, stats_, capacity_history_, ret, calls,
                   adaptive_mutex_, buffer_id, changer>>
    /\ concFrame

\* update_utilization_stats: the section under adaptive_mutex_
WorkerUpdatesUtilization ==
    /\ worker.pc = "util"
    /\ adaptive_mutex_ = "free"
    /\ stats_' = update_utilization_stats(cur).stats
    /\ worker' = [worker EXCEPT !.pc = "return"]
    /\ UNCHANGED <<jitter_buffer_, capacity_history_, ret, calls,
                   adaptive_mutex_, buffer_id, changer, view>>
    /\ concFrame

\* get_next_packet's underrun check, and the return of either call
WorkerReturns ==
    /\ worker.pc = "return"
    /\ IF worker.op = "get_next_packet" /\ ~worker.result /\ ~JB_is_empty(jitter_buffer_)
       THEN /\ adaptive_mutex_ = "free"
            /\ stats_' = [stats_ EXCEPT !.underruns = @ + 1]
       ELSE UNCHANGED stats_
    /\ ret' = [op |-> worker.op, result |-> worker.result, packet |-> worker.packet,
               arg |-> worker.sequence_id]
    /\ worker' = IdleWorker
    /\ UNCHANGED <<jitter_buffer_, capacity_history_, calls,
                   adaptive_mutex_, buffer_id, changer, view>>
    /\ concFrame

\* set_capacity(capacity): the bounds check, the lock, and apply_capacity_change
\* up to its early return
ChangerCallsSetCapacity ==
    \E capacity \in ConcCapacities :
        /\ changer.pc = "idle"
        /\ calls < MaxConcCalls
        /\ calls' = calls + 1
        /\ capacity >= config_.min_capacity /\ capacity <= config_.max_capacity
        /\ adaptive_mutex_ = "free"
        /\ IF capacity = stats_.current_capacity
           THEN /\ ret' = [op |-> "set_capacity", result |-> TRUE,
                           packet |-> NullPacket, arg |-> capacity]
                /\ UNCHANGED <<adaptive_mutex_, changer>>
           ELSE /\ adaptive_mutex_' = "changer"
                /\ changer' = [IdleChanger EXCEPT !.pc = "drain", !.capacity = capacity]
                /\ UNCHANGED ret
        /\ UNCHANGED <<jitter_buffer_, stats_, capacity_history_, buffer_id, worker, view>>
        /\ concFrame

\* migrate_packets_to_new_buffer: one round of the extraction loop
ChangerDrains ==
    /\ changer.pc = "drain"
    /\ IF JB_is_empty(jitter_buffer_)
       THEN /\ changer' = [changer EXCEPT !.pc = "swap"]
            /\ UNCHANGED jitter_buffer_
       ELSE LET r == JB_get_next_packet(jitter_buffer_)
            IN /\ jitter_buffer_' = r.jb
               /\ changer' = [changer EXCEPT !.packets = Append(@, r.packet)]
    /\ UNCHANGED <<stats_, capacity_history_, ret, calls,
                   adaptive_mutex_, buffer_id, worker, view>>
    /\ concFrame

\* jitter_buffer_ = std::make_unique<JitterBuffer>(new_capacity, ...)
ChangerSwaps ==
    /\ changer.pc = "swap"
    /\ jitter_buffer_' = JB_new(changer.capacity)
    /\ buffer_id' = buffer_id + 1
    /\ changer' = [changer EXCEPT !.pc = "refill"]
    /\ UNCHANGED <<stats_, capacity_history_, ret, calls, adaptive_mutex_, worker, view>>
    /\ concFrame

\* migrate_packets_to_new_buffer: one round of the re-add loop
ChangerRefills ==
    /\ changer.pc = "refill"
    /\ changer.readded < Len(changer.packets)
    /\ LET p == changer.packets[changer.readded + 1]
       IN jitter_buffer_' =
              JB_add_packet(jitter_buffer_, p.sequence_id, p.timestamp, p.audio_data).jb
    /\ changer' = [changer EXCEPT !.readded = @ + 1]
    /\ UNCHANGED <<stats_, capacity_history_, ret, calls,
                   adaptive_mutex_, buffer_id, worker, view>>
    /\ concFrame

\* the rest of apply_capacity_change, the unlock and the return of set_capacity
ChangerReturns ==
    /\ changer.pc = "refill"
    /\ changer.readded = Len(changer.packets)
    /\ stats_' = [stats_ EXCEPT
                     !.capacity_increases =
                         IF changer.capacity > stats_.current_capacity THEN @ + 1 ELSE @,
                     !.capacity_decreases =
                         IF changer.capacity > stats_.current_capacity THEN @ ELSE @ + 1,
                     !.current_capacity = changer.capacity,
                     !.adaptations_count = @ + 1,
                     !.since_last_adaptation = 0]
    /\ capacity_history_' = PushHistory(capacity_history_, changer.capacity)
    /\ adaptive_mutex_' = "free"
    /\ ret' = [op |-> "set_capacity", result |-> TRUE, packet |-> NullPacket,
               arg |-> changer.capacity]
    /\ changer' = IdleChanger
    /\ UNCHANGED <<jitter_buffer_, calls, buffer_id, worker, view>>
    /\ concFrame

\* time passes
ConcAdvance ==
    \E d \in TimeSteps :
        /\ stats_.since_last_adaptation < MIN_ADAPTATION_INTERVAL
        /\ stats_' = [stats_ EXCEPT
                         !.since_last_adaptation = Min(@ + d, MIN_ADAPTATION_INTERVAL),
                         !.since_last_update = Min(@ + d, MaxUpdateInterval)]
        /\ UNCHANGED <<jitter_buffer_, capacity_history_, ret, calls, concVars>>
        /\ concFrame

NextConc ==
    \/ WorkerCallsAdd
    \/ WorkerCallsGet
    \/ WorkerAdapts
    \/ WorkerLoadsPointer
    \/ WorkerCallsBuffer
    \/ WorkerCallsDestroyedBuffer
    \/ WorkerUpdatesUtilization
    \/ WorkerReturns
    \/ ChangerCallsSetCapacity
    \/ ChangerDrains
    \/ ChangerSwaps
    \/ ChangerRefills
    \/ ChangerReturns
    \/ ConcAdvance

SpecConc == InitConc /\ [][NextConc]_vars

(***************************************************************************)
(* Properties of the plain JitterBuffer, checked under SpecJB.             *)
(***************************************************************************)
Stored == DOMAIN jitter_buffer_.buffer
StoredAfter == DOMAIN jitter_buffer_'.buffer
WellFormed(audio_data) == audio_data.size = FrameSize * Channels
CallOf(op) == ret'.op = op /\ calls' = calls + 1

\* C1: every packet get_next_packet returns has a sequence_id strictly greater
\* than that of every packet it returned earlier, however add_packet and
\* get_next_packet calls are interleaved.
C1_PopsStrictlyIncreasing ==
    \A i, j \in 1..Len(released) : i < j => released[i] < released[j]

\* C2: get_next_packet on a non-empty buffer returns the stored entry with the
\* smallest sequence_id, as it was added, removes exactly that entry and leaves
\* the others stored; on an empty buffer it returns nullptr and changes nothing.
C2_GetNextReturnsSmallest ==
    [][CallOf("get_next_packet") =>
          IF Stored # {}
          THEN /\ ret'.result
               /\ ret'.packet.sequence_id \in Stored
               /\ \A k \in Stored : ret'.packet.sequence_id <= k
               /\ ret'.packet = jitter_buffer_.buffer[ret'.packet.sequence_id]
               /\ StoredAfter = Stored \ {ret'.packet.sequence_id}
               /\ \A k \in StoredAfter : jitter_buffer_'.buffer[k] = jitter_buffer_.buffer[k]
          ELSE /\ ~ret'.result
               /\ jitter_buffer_' = jitter_buffer_]_vars

\* a packet was popped from a buffer that held others, which stay stored
C2_Witness ==
    /\ ret.op = "get_next_packet"
    /\ ret.result
    /\ Stored # {}

\* C3: add_packet of a new well-formed sequence_id on a buffer holding exactly
\* capacity entries evicts the smallest stored sequence_id, stores the new
\* packet, returns true, increments packets_dropped by exactly 1 and leaves
\* size = capacity; the stored size never exceeds the capacity.
C3_OverflowDropsSmallest ==
    /\ [](Cardinality(Stored) <= jitter_buffer_.capacity)
    /\ [][(/\ CallOf("add_packet")
           /\ Cardinality(Stored) = jitter_buffer_.capacity
           /\ ret'.packet.sequence_id \notin Stored
           /\ WellFormed(ret'.packet.audio_data))
          => LET evicted == CHOOSE k \in Stored : \A j \in Stored : k <= j
             IN /\ ret'.result
                /\ StoredAfter = (Stored \ {evicted}) \cup {ret'.packet.sequence_id}
                /\ jitter_buffer_'.buffer[ret'.packet.sequence_id] = ret'.packet
                /\ \A k \in Stored \ {evicted} :
                       jitter_buffer_'.buffer[k] = jitter_buffer_.buffer[k]
                /\ jitter_buffer_'.packets_dropped = jitter_buffer_.packets_dropped + 1
                /\ Cardinality(StoredAfter) = jitter_buffer_'.capacity]_vars

\* an add has just evicted from a full buffer of capacity at least 2
C3_Witness ==
    /\ ret.op = "add_packet"
    /\ ret.result
    /\ jitter_buffer_.packets_dropped >= 1
    /\ jitter_buffer_.capacity >= 2
    /\ Cardinality(Stored) = jitter_buffer_.capacity
    /\ \E k \in Stored : k > ret.packet.sequence_id

LargestKeys(buffer, capacity) ==
    {k \in DOMAIN buffer : Cardinality({j \in DOMAIN buffer : j > k}) < capacity}

Ascending(packets) ==
    \A i, j \in 1..Len(packets) : i < j => packets[i].sequence_id < packets[j].sequence_id

CapacityChangeCall ==
    /\ CallOf("set_capacity") \/ CallOf("update_adaptation")
    /\ jitter_buffer_'.capacity # jitter_buffer_.capacity

MigratedFrom(old, new, new_capacity) ==
    LET popped == DrainAll(new)
    IN /\ DOMAIN new.buffer = LargestKeys(old.buffer, new_capacity)
       /\ Cardinality(DOMAIN old.buffer) <= new_capacity => new.buffer = old.buffer
       /\ \A k \in DOMAIN new.buffer : new.buffer[k] = old.buffer[k]
       /\ Len(popped) = Cardinality(DOMAIN new.buffer)
       /\ Ascending(popped)
       /\ \A i \in 1..Len(popped) : popped[i] = old.buffer[popped[i].sequence_id]

C7_PoorNetworkKeepsGrowing ==
    [][(/\ CallOf("update_adaptation")
        /\ network_monitor_.attached
        /\ network_monitor_.metrics.quality = "POOR"
        /\ config_ = ValidateConfig(DefaultConfig)
        /\ stats_.since_last_update >= config_.update_interval)
          => /\ jitter_buffer_'.capacity >= jitter_buffer_.capacity
             /\ jitter_buffer_.capacity < config_.max_capacity
                    => jitter_buffer_'.capacity > jitter_buffer_.capacity]_vars

\* C8: the capacity lies within [min_capacity, max_capacity] of the
\* configuration in force and get_capacity() equals stats.current_capacity.
C8_CapacityWithinBounds ==
    /\ config_.min_capacity <= get_capacity
    /\ get_capacity <= config_.max_capacity
    /\ get_capacity = stats_.current_capacity

\* update_config has just forced a buffer holding entries down to a new maximum
C8_Witness ==
    /\ ret.op = "update_config"
    /\ stats_.adaptations_count >= 1
    /\ get_capacity = config_.max_capacity
    /\ get_capacity < ValidateConfig(DefaultConfig).min_capacity
    /\ Stored # {}

\* C9: set_capacity(C) with C outside [min_capacity, max_capacity] returns
\* false and leaves the capacity, the stored entries and adaptations_count
\* unchanged; with C inside the bounds it returns true and get_capacity() = C.
C9_SetCapacityChecksBounds ==
    [][CallOf("set_capacity") =>
          IF ret'.arg < config_.min_capacity \/ ret'.arg > config_.max_capacity
          THEN /\ ~ret'.result
               /\ jitter_buffer_' = jitter_buffer_
               /\ stats_' = stats_
          ELSE /\ ret'.result
               /\ jitter_buffer_'.capacity = ret'.arg]_vars

\* a set_capacity above max_capacity was rejected on a buffer holding entries
C9_Witness ==
    /\ ret.op = "set_capacity"
    /\ ~ret.result
    /\ ret.arg > config_.max_capacity
    /\ get_capacity # ret.arg
    /\ Stored # {}

(***************************************************************************)
(* Properties of the FECDecoder, checked under SpecFEC.                    *)
(***************************************************************************)
FecCallOf(op) == calls' = calls + 1 /\ ret'.op = op

ProcessedPrimary ==
    /\ FecCallOf("process_packet")
    /\ ret'.arg.size >= HEADER_SIZE
    /\ ret'.arg.packet_type = FEC_PRIMARY

\* C10: while a PRIMARY packet processed for sid is stored, recover_packet(sid)
\* succeeds with the payload of the PRIMARY packet last processed for sid and
\* was_recovered_from_redundancy false, and leaves the redundant copies as they
\* were.  The stored entry holds that payload from the process_packet call on:
\* no other call alters it.
C10_PrimaryRecoveredWithoutRedundancy ==
    /\ [][ProcessedPrimary =>
             /\ ret'.arg.sequence_id \in DOMAIN fec_decoder_'.primary_packets_
             /\ fec_decoder_'.primary_packets_[ret'.arg.sequence_id].data = ret'.arg.payload]_vars
    /\ [][\A sid \in DOMAIN fec_decoder_.primary_packets_ \cap DOMAIN fec_decoder_'.primary_packets_ :
             \/ ProcessedPrimary /\ ret'.arg.sequence_id = sid
             \/ fec_decoder_'.primary_packets_[sid].data = fec_decoder_.primary_packets_[sid].data]_vars
    /\ [][(FecCallOf("recover_packet") /\ ret'.arg \in DOMAIN fec_decoder_.primary_packets_) =>
             /\ ret'.result.success
             /\ ret'.result.sequence_id = ret'.arg
             /\ ret'.result.recovered_data = fec_decoder_.primary_packets_[ret'.arg].data
             /\ ~ret'.result.was_recovered_from_redundancy
             /\ fec_decoder_'.redundant_packets_ = fec_decoder_.redundant_packets_
             /\ fec_decoder_'.primary_packets_ = fec_decoder_.primary_packets_]_vars

\* recover_packet has just answered from a stored primary while a redundant
\* copy with another payload is stored for the same sequence id
C10_Witness ==
    /\ ret.op = "recover_packet"
    /\ ret.result.success
    /\ ~ret.result.was_recovered_from_redundancy
    /\ ret.arg \in DOMAIN fec_decoder_.primary_packets_
    /\ ret.arg \in DOMAIN fec_decoder_.redundant_packets_
    /\ fec_decoder_.redundant_packets_[ret.arg] # <<>>
    /\ fec_decoder_.redundant_packets_[ret.arg][1].data # ret.result.recovered_data

(***************************************************************************)
(* Properties of the two-thread model, checked under SpecConc.             *)
(***************************************************************************)
\* C6: every add and every pop of the worker operates on a JitterBuffer object
\* that jitter_buffer_ still owns, and at a moment when the changer holds no
\* extracted packet that it has yet to re-add: the worker meets the complete
\* old buffer or the complete new one.
C6_ConsistentView == view.live /\ view.held = 0

(***************************************************************************)
(* The recovery window of the FEC decoder.                                 *)
(***************************************************************************)
FecKeys(d) == DOMAIN d.primary_packets_ \cup DOMAIN d.redundant_packets_

\* no stored packet of d is older than PACKET_TIMEOUT_MS at time now
NothingExpired(d, now) ==
    /\ \A k \in DOMAIN d.primary_packets_ :
          now - d.primary_packets_[k].timestamp_ms <= PACKET_TIMEOUT_MS
    /\ \A k \in DOMAIN d.redundant_packets_ :
          \A i \in 1..Len(d.redundant_packets_[k]) :
              now - d.redundant_packets_[k][i].timestamp_ms <= PACKET_TIMEOUT_MS

\* C11: once a packet with a sequence_id above sid + max_recovery_distance has
\* been processed, recover_packet(sid) fails and can_recover_packet(sid) is
\* false in every later state, late packets for sid included.
C11_NoRecoveryBehindWindow ==
    \A sid \in SeqIds :
        current_max > sid + fec_decoder_.max_recovery_distance_
            => /\ ~can_recover_packet(fec_decoder_, sid)
               /\ ~recover_packet(fec_decoder_, sid, now_ms).result.success

\* C13: after process_packet has handled a PRIMARY or REDUNDANT packet every
\* stored key lies in [current_max - max_recovery_distance, current_max], and a
\* packet with a sequence_id below current_max evicts no unexpired entry whose
\* key is in that window.
C13_KeysWithinWindowOfMax ==
    [][ (FecCallOf("process_packet") /\ HasFECType(ret'.arg))
        => LET distance == fec_decoder_.max_recovery_distance_
               in_window(k) == current_max' - distance <= k /\ k <= current_max'
           IN /\ \A k \in FecKeys(fec_decoder_') : in_window(k)
              /\ (ret'.arg.sequence_id < current_max /\ NothingExpired(fec_decoder_, now_ms))
                    => \A k \in FecKeys(fec_decoder_) :
                          in_window(k) => k \in FecKeys(fec_decoder_') ]_vars

\* C16: process_packet on data with a type byte other than PRIMARY and
\* REDUNDANT, or shorter than the header, reports failure and leaves the stored
\* primary and redundant entries (none of them expired) and the counters as
\* they were.
C16_MalformedLeavesStateUnchanged ==
    [][ (/\ FecCallOf("process_packet")
         /\ ~HasFECType(ret'.arg)
         /\ NothingExpired(fec_decoder_, now_ms))
        => /\ ~ret'.result.success
           /\ fec_decoder_'.primary_packets_ = fec_decoder_.primary_packets_
           /\ fec_decoder_'.redundant_packets_ = fec_decoder_.redundant_packets_
           /\ fec_decoder_'.stats_ = fec_decoder_.stats_ ]_vars

(***************************************************************************)
(* The packets encode_packet emits and the limits of the configuration.    *)
(***************************************************************************)
EncCallOf(op) == calls' = calls + 1 /\ ret'.op = op

\* the least whole number not below a / 100
CeilPercent(a) == CHOOSE n \in 0..MAX_WINDOW_SIZE : n * 100 >= a /\ (n - 1) * 100 < a

\* C14: encode_packet(sid, payload) returns the PRIMARY packet for sid followed
\* by exactly k REDUNDANT packets, k the least of ceil(redundancy / 100 *
\* window_size), the number of prior entries in the window once sid has been
\* appended, and max_recovery_distance; the i-th of them is carried by sid and
\* holds the id and payload of the i-th most recent prior entry; no redundant
\* packet with redundancy 0 or on the first packet of a stream.
C14_EncodeEmitsPrimaryAndRedundant ==
    [][ EncCallOf("encode_packet")
        => LET c == fec_encoder_.config_
               sid == ret'.arg.sequence_id
               packets == ret'.result
               appended == Append(fec_encoder_.packet_window_,
                                  [sequence_id |-> sid, data |-> ret'.arg.audio_data])
               window == LastN(appended, Min(Len(appended), c.window_size))
               k == Min(Min(CeilPercent(c.redundancy_percentage * c.window_size),
                            Len(window) - 1),
                        c.max_recovery_distance)
           IN /\ Len(packets) = 1 + k
              /\ packets[1].packet_type = FEC_PRIMARY
              /\ packets[1].sequence_id = sid
              /\ packets[1].payload = ret'.arg.audio_data
              /\ \A i \in 1..k :
                    /\ packets[1 + i].packet_type = FEC_REDUNDANT
                    /\ packets[1 + i].sequence_id = sid
                    /\ packets[1 + i].redundant_sequence_id
                          = window[Len(window) - i].sequence_id
                    /\ packets[1 + i].payload = window[Len(window) - i].data
              /\ (c.redundancy_percentage = 0 \/ fec_encoder_.packet_window_ = <<>>)
                    => Len(packets) = 1 ]_vars

\* an encode_packet call has returned two redundant packets protecting
\* different earlier packets
C14_Witness ==
    /\ ret.op = "encode_packet"
    /\ Len(ret.result) = 3
    /\ ret.result[2].redundant_sequence_id # ret.result[3].redundant_sequence_id

\* C15: whatever the constructor, set_redundancy_level, update_config and
\* reset were given, redundancy_percentage is in [0, 50] (a value below 0 has
\* become 0, one above 50 has become 50, any other is kept) and window_size is
\* at most 20.
C15_RedundancyAndWindowClamped ==
    /\ [](/\ fec_encoder_.config_.redundancy_percentage >= 0
          /\ fec_encoder_.config_.redundancy_percentage <= 50
          /\ fec_encoder_.config_.window_size <= 20)
    /\ [][ LET given == IF ret'.op = "update_config"
                         THEN ret'.arg.redundancy_percentage ELSE ret'.arg
               stored == fec_encoder_'.config_.redundancy_percentage
           IN (EncCallOf("set_redundancy_level") \/ EncCallOf("update_config"))
                 => /\ given < 0 => stored = 0
                    /\ given > 50 => stored = 50
                    /\ (0 <= given /\ given <= 50) => stored = given ]_vars

\* set_redundancy_level(75) has left the encoder at 50 %
C15_Witness ==
    /\ ret.op = "set_redundancy_level"
    /\ ret.arg = 75
    /\ fec_encoder_.config_.redundancy_percentage = 50

(***************************************************************************)
(* Recovery of a lost packet from the redundancy carried by its successor. *)
(***************************************************************************)
\* the packets of calls s - 1 and s + 1 have all been processed, in order, those
\* of call s were lost, and nothing later has reached the decoder
LostBetweenDelivered(s) ==
    /\ {s - 1, s, s + 1} \subseteq DOMAIN sent
    /\ sent[s].lost /\ ~sent[s - 1].lost /\ ~sent[s + 1].lost
    /\ \A i \in 1..Len(link) : link[i].sequence_id > s + 1
    /\ current_max = s + 1

\* what the claim expects of recover_packet(s), read from ret after the call
RecoveredFromRedundancy(s) ==
    /\ ret'.result.success
    /\ ret'.result.sequence_id = s
    /\ ret'.result.was_recovered_from_redundancy
    /\ ret'.result.recovered_data = sent[s].payload

ByteOf32(v, i) ==
    CASE i = 0 -> v % 256
      [] i = 1 -> (v \div 256) % 256
      [] i = 2 -> (v \div 65536) % 256
      [] i = 3 -> v \div 16777216

\* byte i (counted from 0) of a 64-bit value held as 16-bit limbs
ByteOf64(v, i) ==
    IF i % 2 = 0 THEN v[i \div 2 + 1] % 256 ELSE v[i \div 2 + 1] \div 256

\* serialized data of 16 + payload_size bytes with the three header fields
\* little-endian at offsets 0, 4 and 12
LittleEndianLayout(data, packet) ==
    /\ data.size = 16 + packet.payload_size
    /\ Len(data.header) = 16
    /\ \A i \in 0..3 : data.header[1 + i] = ByteOf32(packet.sequence_id, i)
    /\ \A i \in 0..7 : data.header[5 + i] = ByteOf64(packet.timestamp, i)
    /\ \A i \in 0..3 : data.header[13 + i] = ByteOf32(packet.payload_size, i)
    /\ data.payload = packet.payload

\* deserialize returned a packet with the fields of packet
ParsedAs(packet) ==
    /\ parsed.state = "packet"
    /\ parsed.packet.sequence_id = packet.sequence_id
    /\ parsed.packet.timestamp = packet.timestamp
    /\ parsed.packet.payload_size = packet.payload_size
    /\ parsed.packet.payload = packet.payload

\* C17, as stated: for every packet p with payload_size = length(payload),
\* serialize(p) has length 16 + payload_size with sequence_id, timestamp and
\* payload_size little-endian at offsets 0, 4 and 12, and deserialize(serialize(p))
\* is a packet with the same sequence_id, timestamp, payload_size and payload.
C17_RoundTrip ==
    /\ audio_packet.payload_size = audio_packet.payload.size
    /\ wire # NoWire /\ wire.size >= 16 + audio_packet.payload_size
           => LittleEndianLayout(wire, audio_packet)
    /\ parsed # NotParsed /\ wire.size >= 16 + audio_packet.payload_size
           => ParsedAs(audio_packet)

\* C17, amended: the same for every packet p with payload_size = length(payload)
\* and payload_size <= 65536; for a longer payload serialize(p) has the same
\* layout and deserialize(serialize(p)) is nullptr.
C17_RoundTripUpToMaxPayload ==
    /\ audio_packet.payload_size = audio_packet.payload.size
    /\ wire # NoWire /\ wire.size >= 16 + audio_packet.payload_size
           => LittleEndianLayout(wire, audio_packet)
    /\ parsed # NotParsed /\ wire.size >= 16 + audio_packet.payload_size
           => IF audio_packet.payload_size <= 65536
              THEN ParsedAs(audio_packet)
              ELSE parsed.state = "nullptr"

\* a packet with the longest accepted payload and a timestamp that uses all
\* eight bytes has made the round trip
C17_Witness ==
    /\ parsed.state = "packet"
    /\ audio_packet.payload_size = 65536
    /\ audio_packet.timestamp[4] > 255
    /\ audio_packet.sequence_id = 16909060


MonCallOf(op) == calls' = calls + 1 /\ ret'.op = op

\* C18: after any sequence of record_packet_sent, record_packet_received and
\* record_rtt events, more receive events than send events included, the
\* packet_loss_rate that get_metrics() returns lies in [0, 100] and packets_lost
\* is packets_sent - packets_received, not a wrapped-around value.
C18_LossRateWithinRange ==
    [][MonCallOf("get_metrics") =>
          /\ ret'.result.packet_loss_rate >= 0
          /\ ret'.result.packet_loss_rate <= 100
          /\ ret'.result.packets_lost >= 0
          /\ ret'.result.packets_sent >= ret'.result.packets_received
                 => ret'.result.packets_lost
                        = ret'.result.packets_sent - ret'.result.packets_received]_vars

\* the class of a value under the strict thresholds a < b < c
StrictClass(v, a, b, c) ==
    CASE v > c -> 3
      [] v > b /\ v <= c -> 2
      [] v > a /\ v <= b -> 1
      [] v <= a -> 0
ClassName(n) ==
    CASE n = 0 -> "EXCELLENT" [] n = 1 -> "GOOD" [] n = 2 -> "FAIR" [] n = 3 -> "POOR"
LossClass(m) == StrictClass(m.packet_loss_rate, 1, 3, 10)
RttClass(m) == StrictClass(m.avg_rtt_us, 5000, 20000, 50000)
JitterClass(m) == StrictClass(m.jitter_us, 1000, 5000, 20000)

\* C19: the quality get_metrics() returns is the worst of the loss class, the
\* RTT class and the jitter class of the packet_loss_rate, avg_rtt_us and
\* jitter_us it returns, with the strict thresholds 1/3/10 %, 5/20/50 ms and
\* 1/5/20 ms.
C19_QualityIsWorstClass ==
    [][MonCallOf("get_metrics") =>
          ret'.result.quality =
              ClassName(Max(LossClass(ret'.result),
                            Max(RttClass(ret'.result), JitterClass(ret'.result))))]_vars

\* get_metrics() has returned FAIR because of the jitter alone, after packets
\* were sent and received
C19_Witness ==
    /\ ret.op = "get_metrics"
    /\ ret.result.quality = "FAIR"
    /\ JitterClass(ret.result) = 2
    /\ RttClass(ret.result) = 1
    /\ LossClass(ret.result) = 0
    /\ ret.result.packets_received > 0

\* clamp(base + bonus, min, max) for a quality and a jitter
RecommendedFor(quality, jitter_us, min_size, max_size) ==
    LET base == CASE quality = "EXCELLENT" -> min_size
                  [] quality = "GOOD" -> min_size + 1
                  [] quality = "FAIR" -> min_size + 3
                  [] quality = "POOR" -> max_size
        bonus == IF jitter_us > 20000 THEN 2 ELSE IF jitter_us > 5000 THEN 1 ELSE 0
    IN Max(min_size, Min(max_size, base + bonus))

\* C20: get_recommended_jitter_buffer_size(min, max) returns clamp(base + bonus,
\* min, max) for the quality and the jitter that get_metrics() reports at the
\* moment of the call, and two calls with no event in between return the same
\* value.
C20_RecommendationFollowsMetrics ==
    [][MonCallOf("get_recommended_jitter_buffer_size") =>
          /\ ret'.result.size = RecommendedFor(get_metrics(monitor_).metrics.quality,
                                               get_metrics(monitor_).metrics.jitter_us,
                                               ret'.arg.min_size, ret'.arg.max_size)
          /\ ret.op = "get_recommended_jitter_buffer_size"
                 => ret'.result.size = ret.result.size]_vars


\* the counters of a JitterBuffer that record packets not kept
DropCounters(jb) == jb.packets_dropped + jb.duplicates_dropped

\* C28: add_packet with audio_data whose length differs from frame_size *
\* channels returns false, leaves the stored entries and the size unchanged and
\* increments a counter that records the dropped packet.
C28_MalformedFrameCounted ==
    [][(CallOf("add_packet") /\ ~WellFormed(ret'.packet.audio_data))
          => /\ ~ret'.result
             /\ jitter_buffer_'.buffer = jitter_buffer_.buffer
             /\ JB_get_size(jitter_buffer_') = JB_get_size(jitter_buffer_)
             /\ DropCounters(jitter_buffer_') = DropCounters(jitter_buffer_) + 1]_vars

\* C29: every get_next_packet call on an empty adaptive buffer returns nullptr
\* and increments underruns by 1; overruns increments exactly when add_packet is
\* invoked while the buffer is already full, and by no other call.
C29_UnderrunsAndOverrunsCounted ==
    [][/\ (CallOf("get_next_packet") /\ JB_is_empty(jitter_buffer_))
            => /\ ~ret'.result
               /\ stats_'.underruns = stats_.underruns + 1
       /\ CallOf("add_packet")
            => stats_'.overruns = stats_.overruns + (IF JB_is_full(jitter_buffer_) THEN 1 ELSE 0)
       /\ CallOf("get_next_packet") => stats_'.overruns = stats_.overruns]_vars

\* C30: when encode_packet runs while another thread calls set_redundancy_level,
\* update_config or reset, it reads nothing outside the packet window, and the
\* packets it returns and the encoder it leaves are those of one of the two
\* orders in which the calls can run one after the other.
C30_EncodeIsSequentiallyConsistent ==
    /\ ~enc_call.outside
    /\ (enc_call.pc = "idle" /\ ret.op = "encode_packet")
         => [encoder |-> fec_encoder_, result |-> ret.result]
                \in SequentialOutcomes(enc_call.started, enc_call.sequence_id,
                                       enc_call.audio_data, enc_call.other)
\* without a call of the other thread in between, encode_packet taken in steps
\* is encode_packet
C30_AloneIsSequential ==
    (enc_call.pc = "idle" /\ ret.op = "encode_packet" /\ enc_call.other = NoOtherCall)
        => [encoder |-> fec_encoder_, result |-> ret.result]
               = encode_packet(enc_call.started, enc_call.sequence_id,
                               enc_call.audio_data, 0)

\* the lifecycle state of the pipeline (UNINITIALISED, INITIALISED, RUNNING,
\* STOPPED): STOPPED is not running after a stop() took it out of RUNNING
Lifecycle(p) ==
    IF ~p.initialized_ THEN "UNINITIALISED"
    ELSE IF p.running_ THEN "RUNNING"
    ELSE IF p.was_stopped THEN "STOPPED"
    ELSE "INITIALISED"

\* a call of the pipeline returns in this step
PipeCallOf(op) == ret'.op = op /\ calls' = calls + 1

\* C21: the pipeline's lifecycle changes only from INITIALISED to RUNNING and
\* from RUNNING to STOPPED; while it is UNINITIALISED, start() and
\* process_audio_packet() return false and no worker runs; start() on a
\* RUNNING pipeline returns false.
C21_OnlyListedTransitions ==
    [][/\ \/ Lifecycle(pipeline_') = Lifecycle(pipeline_)
          \/ Lifecycle(pipeline_) = "INITIALISED" /\ Lifecycle(pipeline_') = "RUNNING"
          \/ Lifecycle(pipeline_) = "RUNNING" /\ Lifecycle(pipeline_') = "STOPPED"
       /\ (Lifecycle(pipeline_) = "UNINITIALISED"
              /\ (PipeCallOf("start") \/ PipeCallOf("process_audio_packet")))
            => ~ret'.result
       /\ Lifecycle(pipeline_) = "UNINITIALISED"
            => \A w \in DOMAIN threads_'.workers : ~(threads_'.workers[w].pc # "unborn")
       /\ (Lifecycle(pipeline_) = "RUNNING" /\ PipeCallOf("start")
              /\ ret'.arg.thread \in DOMAIN threads_.controller
              /\ threads_.controller[ret'.arg.thread].pc = "idle")
            => ~ret'.result]_vars

\* stop() returns in this step, having found the pipeline running / not running
StopReturnsFromRunning ==
    /\ PipeCallOf("stop")
    /\ threads_.controller[ret'.arg.thread].pc = "clear_decoded_audio_queue"
StopReturnsAtOnce ==
    /\ PipeCallOf("stop")
    /\ threads_.controller[ret'.arg.thread].pc = "idle"

\* what C22 promises of the pipeline when stop() returns, but for the ingress queue
StoppedButForIngress ==
    /\ ~pipeline_'.running_
    /\ \A w \in DOMAIN threads_'.workers : ~Live(w)'
    /\ ~pipeline_'.audio_output_.running_
    /\ pipeline_'.decoded_audio_queue_ = <<>>

\* C22: when stop() returns on a RUNNING pipeline, the pipeline is not running,
\* no worker thread is alive, the sink is stopped and the ingress queue and the
\* decoded-audio queue are empty; stop() on a pipeline that is not running
\* changes nothing.
C22_StopIsIdempotent ==
    [][/\ StopReturnsFromRunning
            => (StoppedButForIngress /\ pipeline_'.packet_queue_ = <<>>)
       /\ StopReturnsAtOnce => pipeline_' = pipeline_]_vars

\* the counters of the pipeline
PipeCounters(p) ==
    <<p.packets_processed_, p.frames_decoded_, p.frames_output_, p.decode_errors_,
      p.output_underruns_>>

C24_StopEndsTheWorker ==
    /\ [](pipeline_.constructed
            => \A w \in DOMAIN threads_.workers : threads_.workers[w].stale_waits <= 1)
    /\ (\E c \in DOMAIN threads_.controller :
            threads_.controller[c].pc = "running_store_false")
          ~> (/\ ret.op = "stop"
              /\ \A c \in DOMAIN threads_.controller : threads_.controller[c].pc = "idle"
              /\ \A w \in DOMAIN threads_.workers : ~Live(w))
\* stop() has returned although its notify_all met a worker that was not yet
\* waiting and that began its wait after the flag was cleared
C24_Witness ==
    /\ pipeline_.constructed
    /\ ret.op = "stop"
    /\ threads_.controller["A"].pc = "idle"
    /\ threads_.unheard
    /\ \E w \in DOMAIN threads_.workers :
           threads_.workers[w].pc = "exited" /\ threads_.workers[w].stale_waits = 1

\* a sequence of numbers that grows strictly
StrictlyAscending(numbers) ==
    \A i, j \in 1..Len(numbers) : i < j => numbers[i] < numbers[j]

\* the places in popped of the frames the sink took, then of those still queued
SinkThenQueue(p) ==
    p.written \o [i \in 1..Len(p.decoded_audio_queue_) |-> p.decoded_audio_queue_[i].index]

\* C25: the frames the sink has taken, followed by the frames waiting in the
\* decoded-audio queue, are frames get_next_packet released, in the order in
\* which it released them and each at most once; so the sink sees ascending
\* sequence_ids whenever get_next_packet released ascending ones.
C25_SinkOrderIsReleaseOrder ==
    pipeline_.constructed
        => /\ StrictlyAscending(SinkThenQueue(pipeline_))
           /\ \A i \in 1..Len(SinkThenQueue(pipeline_)) :
                  SinkThenQueue(pipeline_)[i] \in 1..Len(pipeline_.popped)
           /\ StrictlyAscending(pipeline_.popped)
                  => StrictlyAscending([i \in 1..Len(pipeline_.written) |->
                                           pipeline_.popped[pipeline_.written[i]]])
\* two frames were released, sequence_id 1 before 2, and the sink took both
C25_Witness ==
    /\ pipeline_.constructed
    /\ pipeline_.popped = <<1, 2>>
    /\ pipeline_.written = <<1, 2>>

\* C26: the ingress queue is bounded: its length stays below a fixed bound
\* however many process_audio_packet calls fall between two iterations of the
\* worker (here: below the number of calls the producer makes).
C26_IngressQueueBounded ==
    pipeline_.constructed => Len(pipeline_.packet_queue_) < MaxPackets

\* the worker threads inside processing_thread
LiveWorkers == {w \in DOMAIN threads_.workers : Live(w)}

\* C27: however start() and stop() calls from several threads interleave, at
\* most one worker thread is inside the processing loop at any time (and
\* start() never assigns a second thread to a processing_thread_ that still
\* stands for a running one).
C27_AtMostOneWorker ==
    pipeline_.constructed => (Cardinality(LiveWorkers) <= 1 /\ ~threads_.aborted)

\* C36: no sequence_id is released twice: the sequence_ids get_next_packet has
\* returned are all different, also when add_packet is called again with a
\* sequence_id that was already released.
C36_NoSequenceIdReleasedTwice ==
    \A i, j \in 1..Len(released) : i # j => released[i] # released[j]

\* C39: in every state of the FEC decoder recovery_attempts equals
\* packets_recovered + recovery_failures: each recover_packet call counts as
\* one success or one failure, also when a stored PRIMARY satisfies it.
C39_AttemptsAreSuccessesPlusFailures ==
    fec_decoder_.stats_.recovery_attempts
        = fec_decoder_.stats_.packets_recovered + fec_decoder_.stats_.recovery_failures

\* the stored entry recover_packet answers from: the primary, else the first
\* redundant copy
RecoverySource(d, sequence_id) ==
    IF sequence_id \in DOMAIN d.primary_packets_
    THEN d.primary_packets_[sequence_id]
    ELSE d.redundant_packets_[sequence_id][1]

\* some entry stored for sequence_id is at most PACKET_TIMEOUT_MS old
HasFreshEntry(d, sequence_id, now) ==
    \/ /\ sequence_id \in DOMAIN d.primary_packets_
       /\ now - d.primary_packets_[sequence_id].timestamp_ms <= PACKET_TIMEOUT_MS
    \/ /\ sequence_id \in DOMAIN d.redundant_packets_
       /\ \E i \in 1..Len(d.redundant_packets_[sequence_id]) :
              now - d.redundant_packets_[sequence_id][i].timestamp_ms <= PACKET_TIMEOUT_MS

\* C35: recover_packet never succeeds from an entry that was stored more than
\* PACKET_TIMEOUT_MS (1 s) earlier, and can_recover_packet is never true for a
\* sequence_id of which only such entries are stored, whether or not a packet
\* was processed in the meantime.
C35_NoRecoveryFromExpiredEntry ==
    [][/\ (FecCallOf("recover_packet") /\ ret'.result.success)
            => now_ms - RecoverySource(fec_decoder_, ret'.arg).timestamp_ms
                   <= PACKET_TIMEOUT_MS
       /\ \A sequence_id \in SeqIds :
              can_recover_packet(fec_decoder_', sequence_id)
                  => HasFreshEntry(fec_decoder_', sequence_id, now_ms')]_vars

\* C34: after a non-empty sequence of record_rtt samples get_metrics()
\* reports min_rtt_us, max_rtt_us and avg_rtt_us equal to the minimum, the
\* maximum and the integer mean of the samples in the RTT window, also when
\* the window holds exactly one sample.
C34_RttStatisticsOverTheWindow ==
    (ret.op = "get_metrics" /\ monitor_.rtt_samples_ # <<>>)
        => /\ ret.result.min_rtt_us = SeqMin(monitor_.rtt_samples_)
           /\ ret.result.max_rtt_us = SeqMax(monitor_.rtt_samples_)
           /\ ret.result.avg_rtt_us
                  = SeqSum(monitor_.rtt_samples_) \div Len(monitor_.rtt_samples_)

\* C37: a capacity change never loses an accepted packet: when add_packet
\* returns true after its call reached the buffer object that was alive, and
\* no capacity change is in progress any more, the packet is stored in the
\* buffer that is current (no other call has popped it, and the capacities
\* are too large for an overflow).
C37_CapacityChangeKeepsAcceptedPacket ==
    [][(/\ worker.pc = "return" /\ worker'.pc = "idle"
        /\ worker.op = "add_packet" /\ worker.result /\ view.live
        /\ changer.pc = "idle")
           => worker.sequence_id \in DOMAIN jitter_buffer_'.buffer]_vars

\* C38: with process_audio_packet running on another thread concurrently with
\* stop(), once stop() has returned on a pipeline that was running the ingress
\* queue is empty, and it stays empty until the next start() is called.
C38_IngressEmptyWhileStopped ==
    (/\ Lifecycle(pipeline_) = "STOPPED"
     /\ \A c \in DOMAIN threads_.controller : threads_.controller[c].pc = "idle")
        => pipeline_.packet_queue_ = <<>>

\* worker w ends an iteration of the processing loop in this step
IterationEnds(w) ==
    /\ threads_.workers[w].pc = "get_size"
    /\ threads_'.workers[w].pc \in {"loop", "wait_for"}

\* C33: at the end of an iteration of the worker loop in which the sink
\* accepted its writes, every entry of the reorder buffer has been popped and
\* every queued frame written: the reorder buffer and the decoded-audio queue
\* are both empty.
C33_IterationDrainsBuffers ==
    [][\A w \in DOMAIN threads_.workers :
          (IterationEnds(w) /\ pipeline_.output_underruns_ = 0)
              => /\ JB_is_empty(pipeline_'.jitter_buffer_)
                 /\ pipeline_'.decoded_audio_queue_ = <<>>]_vars

\* the mutexes of the pipeline
PipelineMutexes == {"packet_queue_mutex_", "decoded_audio_mutex_", "latency_mutex_"}

\* C31: while a worker is inside the sink's write_audio call it holds none of
\* the pipeline's mutexes (ingress queue, decoded-audio queue, latency
\* snapshot).
C31_NoLockAcrossSinkWrite ==
    \A w \in DOMAIN threads_.workers :
        threads_.workers[w].pc = "write_audio" => HeldBy(w) \cap PipelineMutexes = {}

\* the place of a mutex in the order ingress > reorder > decoded > latency
LockRank(mutex) ==
    CASE mutex = "packet_queue_mutex_" -> 1
      [] mutex = "buffer_mutex_" -> 2
      [] mutex = "decoded_audio_mutex_" -> 3
      [] mutex = "latency_mutex_" -> 4

\* the mutex the next step of worker w locks while it holds others, "" if none
Wants(w) ==
    CASE threads_.workers[w].pc = "process_audio_output" -> "decoded_audio_mutex_"
      [] threads_.workers[w].pc = "update_latency_measurements" -> "latency_mutex_"
      [] OTHER -> ""

\* worker w holds a mutex and waits for one that another thread holds
HoldsAndWaits(w) ==
    /\ HeldBy(w) # {}
    /\ Wants(w) # ""
    /\ ~FreeFor(Wants(w), w)

\* C32: a thread that holds one of the locks ingress queue, reorder buffer,
\* decoded-audio queue, latency snapshot acquires only locks later in this
\* order, and no thread holds a lock while it waits for another thread's.
C32_LocksTakenInOrder ==
    /\ \A pair \in threads_.lock_order : LockRank(pair[1]) < LockRank(pair[2])
    /\ \A w \in DOMAIN threads_.workers : ~HoldsAndWaits(w)

\* get_next_packet has released sequence_id after its first k releases, and the
\* sink has taken that frame
WrittenAfter(p, sequence_id, k) ==
    \E i \in (k + 1)..Len(p.popped) :
        /\ p.popped[i] = sequence_id
        /\ \E j \in 1..Len(p.written) : p.written[j] = i

============================================================================
